---------------------------- MODULE Spec2Model ----------------------------
(***************************************************************************)
(* A model of the translation orchestration core of LinguaGacha:           *)
(*   - CacheManager.generate_item_chunks / generate_preceding_chunks       *)
(*     (module/Cache/CacheManager.py), the chunk planner;                  *)
(*   - ResponseChecker.check / check_lines                                 *)
(*     (module/Response/ResponseChecker.py), the response validator;       *)
(*   - Translator (module/Translator/Translator.py): the session thread,   *)
(*     the stop watcher, the task completion callback, the snapshot        *)
(*     ticker of CacheManager, and mtool_optimizer_postprocess.            *)
(*                                                                         *)
(* Text is a sequence of one-character strings.  Items are referred to by  *)
(* their position in the item list (1-based here, 0-based in the code), so *)
(* that a chunk is a sequence of references, as in the code.               *)
(***************************************************************************)
EXTENDS Integers, Sequences, FiniteSets, TLC

VARIABLES
    \* CacheManager.items and the planner's inputs and outputs
    items,                      \* self.items
    token_threshold,            \* self.config.token_threshold
    preceding_lines_threshold,  \* self.config.preceding_lines_threshold
    chunks,                     \* chunks returned by generate_item_chunks
    preceding_chunks,           \* preceding_chunks returned with them
    plan_pc,                    \* "input" | "planned"
    \* ResponseChecker: its fields, the arguments of check, and what it returns
    checker_items,              \* self.items (the items of the task)
    cfg_source_language,        \* self.source_language
    cfg_target_language,        \* self.target_language
    src_dict,                   \* the values of src_dict, in order
    dst_dict,                   \* the values of dst_dict, in order
    source_language,            \* the argument source_language
    check_result,               \* the list check returns
    check_pc,                   \* "input" | "checked"
    \* Translator and the threads it starts
    WORK_STATUS,                \* Base.WORK_STATUS
    has_translating,            \* whether self.translating has been assigned
    translating,                \* self.translating
    session,                    \* the thread running translation_start_target
    session_no,                 \* how many session threads were started
    starts,                     \* TRANSLATION_START events delivered
    watchers,                   \* the threads started by translation_stop
    stop_done,                  \* who emitted TRANSLATION_STOP_DONE
    input_items,                \* what FileManager.read_from_path returns
    config_file,                \* what Config().load() returns
    extras,                     \* self.extras
    round_base,                 \* self.extras when the round's tasks were created
    project,                    \* CacheManager.project
    tasks,                      \* the tasks of the current round
    data_lock,                  \* self.data_lock: 0, or the task holding it
    save_flag,                  \* CacheManager.save_to_file_require_flag
    ticker_pc,                  \* the thread running save_to_file_tick
    file_items,                 \* cache/items.json
    file_project,               \* cache/project.json
    \* ResponseDecoder.decode: its argument and what it returns
    response,                   \* what json_repair makes of the response text
    decoded,                    \* dst_dict and glossary_list
    decode_pc,                  \* "input" | "decoded"
    \* Translator.initialize_max_workers
    workers_in,                 \* the configuration and what the probe would give
    workers_out,                \* max_workers, rpm_threshold, and the probes made
    workers_pc,                 \* "input" | "sized" | "returned"
    \* CacheManager.save_to_file, followed item by item
    snapshot,                   \* the list being serialized for items.json
    \* translation_start delivered while a session thread is alive
    session_threads,            \* every thread running translation_start_target
    list_no,                    \* which list object CacheManager.items is
    \* Translator.mtool_optimizer_postprocess
    postprocess,                \* its argument, the flag, and the list afterwards
    \* CacheManager.save_to_file_tick with writes that can fail
    save_run                    \* requests made, events emitted, failures logged

chunk_vars == <<items, token_threshold, preceding_lines_threshold,
                chunks, preceding_chunks, plan_pc>>

checker_vars == <<checker_items, cfg_source_language, cfg_target_language,
                  src_dict, dst_dict, source_language, check_result, check_pc>>

workers_vars == <<workers_in, workers_out, workers_pc>>

decode_vars == <<response, decoded, decode_pc>>

race_vars == <<session_threads, list_no>>

side_vars == <<postprocess, save_run>>

aux_vars == <<decode_vars, workers_vars, snapshot, race_vars, side_vars>>

stop_vars == <<WORK_STATUS, has_translating, translating, session, session_no,
               starts, watchers, stop_done, input_items, config_file>>

round_vars == <<extras, round_base, project, tasks, data_lock, save_flag>>

file_vars == <<ticker_pc, file_items, file_project>>

vars == <<chunk_vars, checker_vars, aux_vars, stop_vars, round_vars, file_vars>>

----------------------------------------------------------------------------
(* Bounds of the model *)

MaxItems == 3
MaxLines == 2
MaxRetryCount == 2
MaxSessionItems == 2
MaxStarts == 2
MaxStops == 1
MaxRoundTasks == 2
MaxUsage == 1
MaxResponseLines == 2

----------------------------------------------------------------------------
(* Generic helpers *)

Max(a, b) == IF a >= b THEN a ELSE b

\* Python's int(a / b) for b > 0: truncation toward zero
IntDiv(a, b) == IF a >= 0 THEN a \div b ELSE -((-a) \div b)

Last(s) == s[Len(s)]

RECURSIVE Reverse(_)
Reverse(s) == IF s = <<>> THEN <<>> ELSE Append(Reverse(Tail(s)), Head(s))

RECURSIVE Flatten(_)
Flatten(ss) == IF ss = <<>> THEN <<>> ELSE Head(ss) \o Flatten(Tail(ss))

RECURSIVE SumSeq(_)
SumSeq(s) == IF s = <<>> THEN 0 ELSE Head(s) + SumSeq(Tail(s))

Range(s) == {s[k] : k \in 1..Len(s)}

----------------------------------------------------------------------------
(* Python str operations used by the code *)

Whitespace == {" ", "\n", "\r"}

\* the line boundaries of str.splitlines() that the modelled texts hold
LineBreaks == {"\n", "\r"}

RECURSIVE lstrip(_)
lstrip(s) == IF s # <<>> /\ Head(s) \in Whitespace THEN lstrip(Tail(s)) ELSE s

RECURSIVE rstrip(_)
rstrip(s) ==
    IF s # <<>> /\ Last(s) \in Whitespace
    THEN rstrip(SubSeq(s, 1, Len(s) - 1))
    ELSE s

\* str.strip()
strip(s) == rstrip(lstrip(s))

FirstBreak(s) ==
    IF \E k \in 1..Len(s) : s[k] \in LineBreaks
    THEN CHOOSE k \in 1..Len(s) :
             s[k] \in LineBreaks /\ \A j \in 1..(k - 1) : s[j] \notin LineBreaks
    ELSE 0

\* the length of the line boundary at k: "\r\n" is one boundary
BreakLen(s, k) == IF s[k] = "\r" /\ k < Len(s) /\ s[k + 1] = "\n" THEN 2 ELSE 1

\* str.splitlines(): no trailing empty line
RECURSIVE splitlines(_)
splitlines(s) ==
    IF s = <<>> THEN <<>>
    ELSE LET k == FirstBreak(s)
         IN  IF k = 0 THEN <<s>>
             ELSE <<SubSeq(s, 1, k - 1)>>
                      \o splitlines(SubSeq(s, k + BreakLen(s, k), Len(s)))

\* str.count("\n")
CountNewline(s) == Cardinality({k \in 1..Len(s) : s[k] = "\n"})

\* CacheManager.END_LINE_PUNCTUATION; the non-ASCII marks are written by code point
END_LINE_PUNCTUATION ==
    {".", "u3002", "?", "uFF1F", "!", "uFF01", "u2026", "'", "\"",
     "u2019", "u201D", "u300D", "u300F"}

\* str.endswith(tuple of one-character strings)
endswith(s, marks) == s # <<>> /\ Last(s) \in marks

----------------------------------------------------------------------------
(* CacheItem: the fields the modelled code reads *)

UNTRANSLATED == "UNTRANSLATED"
TRANSLATING == "TRANSLATING"
TRANSLATED == "TRANSLATED"
EXCLUDED == "EXCLUDED"

\* Base.TaskStatus (TRANSLATING is shared with Base.TranslationStatus above)
IDLE == "IDLE"
STOPPING == "STOPPING"

\* the keys of self.extras that are counts (start_time and time are clock
\* readings and are left out)
ZeroExtras ==
    [total_line |-> 0, line |-> 0, total_tokens |-> 0, total_output_tokens |-> 0]

\* CacheProject: its status and its extras
EmptyProject == [status |-> UNTRANSLATED, extras |-> ZeroExtras]

NoSession == [pc |-> "none", status |-> UNTRANSLATED, current_round |-> 0]

\* config.max_round, config.token_threshold and
\* config.preceding_lines_threshold, as Config().load() returns them at line 127
max_round == 1
ConfigTokenThreshold == 3
ConfigPrecedingLinesThreshold == 0

DefaultConfig ==
    [token_threshold |-> ConfigTokenThreshold,
     preceding_lines_threshold |-> ConfigPrecedingLinesThreshold,
     max_round |-> max_round]

\* no session was ever started, and the ticker sleeps
TranslatorVarsIdle ==
    /\ WORK_STATUS = IDLE
    /\ has_translating = FALSE
    /\ translating = FALSE
    /\ session = NoSession
    /\ session_no = 0
    /\ starts = 0
    /\ watchers = <<>>
    /\ stop_done = {}
    /\ input_items = <<>>
    /\ config_file = DefaultConfig
    /\ extras = ZeroExtras
    /\ round_base = ZeroExtras
    /\ project = EmptyProject
    /\ tasks = <<>>
    /\ data_lock = 0
    /\ save_flag = FALSE
    /\ ticker_pc = "sleep"
    /\ file_items = [exists |-> FALSE, content |-> <<>>]
    /\ file_project = [exists |-> FALSE, content |-> EmptyProject]

\* sum(1 for line in item.get_src().splitlines() if line.strip())
NonEmptyLineCount(src) ==
    LET lines == splitlines(src)
    IN  Cardinality({k \in 1..Len(lines) : strip(lines[k]) # <<>>})

----------------------------------------------------------------------------
(* CacheManager.generate_preceding_chunks                                  *)
(* its: self.items; chunk: references; start, skip: as in the code         *)
(* (0-based index arithmetic); the result holds references in reading      *)
(* order.                                                                   *)

\* a candidate is kept whatever it ends with
EndsSentenceAlways(src) == TRUE

\* src.endswith(CacheManager.END_LINE_PUNCTUATION)
EndsSentence(src) == endswith(src, END_LINE_PUNCTUATION)

RECURSIVE PrecedingWalk(_, _, _, _, _)
PrecedingWalk(its, chunk, i, threshold, result) ==
    IF i < 0 THEN result
    ELSE LET item == its[i + 1]
             src == strip(item.src)
         IN  IF item.status = EXCLUDED
                 THEN PrecedingWalk(its, chunk, i - 1, threshold, result)
             ELSE IF src = <<>>
                 THEN PrecedingWalk(its, chunk, i - 1, threshold, result)
             ELSE IF Len(result) >= threshold
                 THEN result
             ELSE IF item.file_path # its[Last(chunk)].file_path
                 THEN result
             ELSE IF EndsSentence(src)
                 THEN PrecedingWalk(its, chunk, i - 1, threshold,
                                    Append(result, i + 1))
             ELSE result

PrecedingOrderKeepWalkOrder(result) == result

\* result[::-1]
PrecedingOrder(result) == Reverse(result)

generate_preceding_chunks(its, chunk, start, skip, threshold) ==
    PrecedingOrder(
        PrecedingWalk(its, chunk, start - skip - Len(chunk) - 1, threshold, <<>>))

----------------------------------------------------------------------------
(* CacheManager.generate_item_chunks *)

line_limit(threshold) == Max(8, IntDiv(threshold, 16))

IsSkippedOnlyExcluded(item) == item.status = EXCLUDED

\* item.get_status() != Base.TranslationStatus.UNTRANSLATED
IsSkipped(item) == item.status # UNTRANSLATED

ChunkEndsNoTokenCheck(its, st, item, cur_lines, threshold) ==
    \/ st.line_length + cur_lines > line_limit(threshold)
    \/ item.file_path # its[Last(st.chunk)].file_path

ChunkEndsNoFileCheck(its, st, item, cur_lines, threshold) ==
    \/ st.line_length + cur_lines > line_limit(threshold)
    \/ st.token_length + item.token_count > threshold

\* the elif condition that ends the current chunk before item
ChunkEnds(its, st, item, cur_lines, threshold) ==
    \/ st.line_length + cur_lines > line_limit(threshold)
    \/ st.token_length + item.token_count > threshold
    \/ item.file_path # its[Last(st.chunk)].file_path

PlanInit ==
    [skip |-> 0, line_length |-> 0, token_length |-> 0,
     chunk |-> <<>>, chunks |-> <<>>, preceding_chunks |-> <<>>]

\* one iteration of the for loop, at 0-based index i
PlanStep(its, st, i, threshold, preceding) ==
    LET item == its[i + 1]
        cur_lines == NonEmptyLineCount(item.src)
    IN  IF IsSkipped(item)
        THEN [st EXCEPT !.skip = st.skip + 1]
        ELSE LET flushed ==
                     IF st.chunk # <<>> /\ ChunkEnds(its, st, item, cur_lines, threshold)
                     THEN [st EXCEPT
                              !.chunks = Append(st.chunks, st.chunk),
                              !.preceding_chunks =
                                  Append(st.preceding_chunks,
                                         generate_preceding_chunks(
                                             its, st.chunk, i, st.skip, preceding)),
                              !.skip = 0,
                              !.chunk = <<>>,
                              !.line_length = 0,
                              !.token_length = 0]
                     ELSE st
             IN  [flushed EXCEPT
                     !.chunk = Append(flushed.chunk, i + 1),
                     !.line_length = flushed.line_length + cur_lines,
                     !.token_length = flushed.token_length + item.token_count]

RECURSIVE PlanLoop(_, _, _, _, _)
PlanLoop(its, st, i, threshold, preceding) ==
    IF i >= Len(its) THEN st
    ELSE PlanLoop(its, PlanStep(its, st, i, threshold, preceding), i + 1,
                  threshold, preceding)

\* returns [chunks, preceding_chunks]
generate_item_chunks(its, threshold, preceding) ==
    LET st == PlanLoop(its, PlanInit, 0, threshold, preceding)
    IN  IF st.chunk # <<>>
        THEN [chunks |-> Append(st.chunks, st.chunk),
              preceding_chunks |->
                  Append(st.preceding_chunks,
                         generate_preceding_chunks(
                             its, st.chunk, Len(its), st.skip, preceding))]
        ELSE [chunks |-> st.chunks, preceding_chunks |-> st.preceding_chunks]

----------------------------------------------------------------------------
(* The planner applied to bounded inputs *)

FilePaths == {"f1", "f2"}

\* A blank source, a fragment, a sentence, and five non-empty lines (with a
\* blank one between) whose last ends a sentence; each with a token count.
SrcBlank == <<" ">>
SrcFragment == <<"a">>
SrcSentence == <<"a", ".">>
SrcFiveLines == <<"a", "\n", "a", "\n", " ", "\n", "a", "\n", "a", "\n", "b", "?", " ">>

PlanTexts ==
    {[src |-> SrcBlank, token_count |-> 0],
     [src |-> SrcFragment, token_count |-> 1],
     [src |-> SrcSentence, token_count |-> 2],
     [src |-> SrcFiveLines, token_count |-> 6]}

PlanItems ==
    {[status |-> s, file_path |-> f, src |-> t.src, token_count |-> t.token_count] :
        s \in {UNTRANSLATED, TRANSLATED, EXCLUDED}, f \in FilePaths, t \in PlanTexts}

PlanItemLists == UNION {[1..n -> PlanItems] : n \in 0..MaxItems}

\* 3: two sentences exceed the token budget, and five lines alone exceed it;
\* 16: two five-line items fit the budget but not line_limit = 8;
\* 160: line_limit is 10, which two five-line items fill
PlanTokenThresholds == {3, 16, 160}

PlanPrecedingThresholds == {0, 1, 2}

\* spec.md section 8, scenario 5: three items of files f1, f1, f2 with 10 tokens
\* each, planned with token_threshold = 100
BoundaryScenarioItems ==
    <<[status |-> UNTRANSLATED, file_path |-> "f1", src |-> SrcSentence, token_count |-> 10],
      [status |-> UNTRANSLATED, file_path |-> "f1", src |-> SrcSentence, token_count |-> 10],
      [status |-> UNTRANSLATED, file_path |-> "f2", src |-> SrcSentence, token_count |-> 10]>>

\* spec.md section 8, scenario 6: three items of one file and the item that
\* follows them, planned with preceding_lines_threshold = 5; the token counts
\* are free
TextFirstSentence ==
    <<"F", "i", "r", "s", "t", " ", "s", "e", "n", "t", "e", "n", "c",
    "e", ".">>

TextMiddle ==
    <<"M", "i", "d", "d", "l", "e", " ", "w", "i", "t", "h", "o", "u",
    "t", " ", "p", "u", "n", "c", "t", "u", "a", "t", "i", "o", "n">>

TextTrailingLine ==
    <<"T", "r", "a", "i", "l", "i", "n", "g", " ", "l", "i", "n", "e",
    ".">>

PrecedingScenarioTexts == <<TextFirstSentence, TextMiddle, TextTrailingLine>>

PrecedingScenarioItems ==
    {[k \in 1..4 |-> [status |-> UNTRANSLATED, file_path |-> "f1",
                      src |-> IF k <= 3 THEN PrecedingScenarioTexts[k]
                                        ELSE SrcFragment,
                      token_count |-> t[k]]] :
        t \in [1..4 -> {1, 2}]}

ChunkVarsIdle ==
    /\ items = <<>>
    /\ token_threshold = 0
    /\ preceding_lines_threshold = 0
    /\ chunks = <<>>
    /\ preceding_chunks = <<>>
    /\ plan_pc = "idle"

CheckerVarsIdle ==
    /\ checker_items = <<>>
    /\ cfg_source_language = "EN"
    /\ cfg_target_language = "ZH"
    /\ src_dict = <<>>
    /\ dst_dict = <<>>
    /\ source_language = "EN"
    /\ check_result = <<>>
    /\ check_pc = "idle"

DecodeVarsIdle ==
    /\ response = [lines |-> <<>>, whole |-> [is_dict |-> FALSE, pairs |-> <<>>]]
    /\ decoded = [dst_dict |-> <<>>, glossary_list |-> <<>>]
    /\ decode_pc = "idle"

\* what the GET of /slots comes to: it raises, or response.json() is something
\* other than a list, or a list of len items
ProbeFailure == [kind |-> "failure", len |-> 0]
ProbeNotAList == [kind |-> "other", len |-> 0]
ProbeList(n) == [kind |-> "list", len |-> n]

WorkersVarsIdle ==
    /\ workers_in = [max_workers |-> 0, rpm_threshold |-> 0, slots |-> ProbeFailure]
    /\ workers_out = [max_workers |-> 0, rpm_threshold |-> 0, probes |-> 0]
    /\ workers_pc = "idle"

\* no save is under way
NoSnapshot == [pc |-> "idle", out |-> <<>>, views |-> {}]

SnapshotVarsIdle == snapshot = NoSnapshot

RaceVarsIdle ==
    /\ session_threads = <<>>
    /\ list_no = 0

\* mtool_optimizer_postprocess is not running
NoPostprocess == [pc |-> "idle", enable |-> FALSE, input |-> <<>>, items |-> <<>>]

PostprocessVarsIdle == postprocess = NoPostprocess

\* no save was requested
NoSaveRun == [requests |-> 0, events |-> 0, log |-> <<>>, tried |-> {}]

SaveRunVarsIdle == save_run = NoSaveRun

SideVarsIdle == PostprocessVarsIdle /\ SaveRunVarsIdle

AuxVarsIdle ==
    /\ DecodeVarsIdle
    /\ WorkersVarsIdle
    /\ SnapshotVarsIdle
    /\ RaceVarsIdle
    /\ SideVarsIdle

ChunkInit ==
    /\ CheckerVarsIdle
    /\ AuxVarsIdle
    /\ TranslatorVarsIdle
    /\ \/ /\ items \in PlanItemLists
          /\ token_threshold \in PlanTokenThresholds
          /\ preceding_lines_threshold \in PlanPrecedingThresholds
       \/ /\ items = BoundaryScenarioItems
          /\ token_threshold = 100
          /\ preceding_lines_threshold \in PlanPrecedingThresholds
       \/ /\ items \in PrecedingScenarioItems
          /\ token_threshold \in PlanTokenThresholds
          /\ preceding_lines_threshold = 5
    /\ chunks = <<>>
    /\ preceding_chunks = <<>>
    /\ plan_pc = "input"

PlanChunks ==
    /\ plan_pc = "input"
    /\ LET r == generate_item_chunks(items, token_threshold, preceding_lines_threshold)
       IN  /\ chunks' = r.chunks
           /\ preceding_chunks' = r.preceding_chunks
    /\ plan_pc' = "planned"
    /\ UNCHANGED <<items, token_threshold, preceding_lines_threshold>>
    /\ UNCHANGED <<checker_vars, aux_vars, stop_vars, round_vars, file_vars>>

ChunkNext == PlanChunks

ChunkSpec == ChunkInit /\ [][ChunkNext]_vars

----------------------------------------------------------------------------
(* Properties of the planner *)

Refs(its) == [k \in 1..Len(its) |-> k]

IsUntranslatedRef(k) == items[k].status = UNTRANSLATED

UntranslatedRefs == SelectSeq(Refs(items), IsUntranslatedRef)

ChunkLines(chunk) == SumSeq([j \in 1..Len(chunk) |-> NonEmptyLineCount(items[chunk[j]].src)])

ChunkTokens(chunk) == SumSeq([j \in 1..Len(chunk) |-> items[chunk[j]].token_count])

\* C1: the chunks, concatenated in order, are exactly the UNTRANSLATED items in
\* list order (none dropped, none duplicated, no other item), and no chunk is
\* empty.
ChunkTotality ==
    plan_pc = "planned" =>
        /\ Flatten(chunks) = UntranslatedRefs
        /\ \A k \in 1..Len(chunks) : chunks[k] # <<>>

\* two chunks, with a TRANSLATED item between two UNTRANSLATED ones
ChunkTotalityWitness ==
    /\ plan_pc = "planned"
    /\ Len(chunks) >= 2
    /\ \E k \in 2..(Len(items) - 1) :
           /\ items[k].status = TRANSLATED
           /\ items[k - 1].status = UNTRANSLATED
           /\ items[k + 1].status = UNTRANSLATED

\* C2: a chunk of more than one item has at most line_limit non-empty source
\* lines and at most token_threshold tokens, with
\* line_limit = max(8, floor(token_threshold / 16)); only a chunk of one item
\* may exceed either.
ChunkBounds ==
    plan_pc = "planned" =>
        \A k \in 1..Len(chunks) :
            Len(chunks[k]) > 1 =>
                /\ ChunkLines(chunks[k]) <= Max(8, token_threshold \div 16)
                /\ ChunkTokens(chunks[k]) <= token_threshold

\* a chunk of two items within both bounds, followed by a chunk of one item
\* that is over the token budget
ChunkBoundsWitness ==
    /\ plan_pc = "planned"
    /\ \E k \in 1..(Len(chunks) - 1) :
           /\ Len(chunks[k]) = 2
           /\ Len(chunks[k + 1]) = 1
           /\ ChunkTokens(chunks[k + 1]) > token_threshold

\* C3: the items of a chunk share one file_path, so a chunk boundary lies
\* between consecutive UNTRANSLATED items of different files; the items
\* f1, f1, f2 of 10 tokens each with token_threshold 100 give [f1, f1] and [f2].
ChunkSingleFile ==
    plan_pc = "planned" =>
        /\ \A k \in 1..Len(chunks) : \A i, j \in 1..Len(chunks[k]) :
               items[chunks[k][i]].file_path = items[chunks[k][j]].file_path
        /\ (items = BoundaryScenarioItems /\ token_threshold = 100)
               => chunks = <<(<<1, 2>>), (<<3>>)>>

ChunkSingleFileWitness ==
    /\ plan_pc = "planned"
    /\ items = BoundaryScenarioItems
    /\ token_threshold = 100
    /\ Len(chunks) = 2

\* C4: preceding_chunks is as long as chunks, and each item of
\* preceding_chunks[k] is not EXCLUDED, has a non-empty stripped source ending
\* with a terminal punctuation mark, has the file_path of chunks[k], lies
\* before the first item of chunks[k], and they are in reading order and at
\* most preceding_lines_threshold many.
PrecedingAlignment ==
    plan_pc = "planned" =>
        /\ Len(preceding_chunks) = Len(chunks)
        /\ \A k \in 1..Len(preceding_chunks) :
               LET pre == preceding_chunks[k]
               IN  /\ Len(pre) <= preceding_lines_threshold
                   /\ \A j \in 1..Len(pre) :
                          /\ items[pre[j]].status # EXCLUDED
                          /\ strip(items[pre[j]].src) # <<>>
                          /\ Last(strip(items[pre[j]].src)) \in END_LINE_PUNCTUATION
                          /\ \A i \in 1..Len(chunks[k]) :
                                 items[pre[j]].file_path = items[chunks[k][i]].file_path
                          /\ pre[j] < chunks[k][1]
                   /\ \A j \in 1..(Len(pre) - 1) : pre[j] < pre[j + 1]

PrecedingAlignmentWitness ==
    /\ plan_pc = "planned"
    /\ \E k \in 1..Len(preceding_chunks) : Len(preceding_chunks[k]) >= 2


----------------------------------------------------------------------------
(* ResponseChecker                                                         *)
(*                                                                         *)
(* The characters of a text are one-character strings; a character outside *)
(* ASCII is written by its code point.  TextHelper, RuleFilter,            *)
(* LanguageFilter and TextPreserver are modelled from their contracts.     *)

NONE == "NONE"
FAIL_DATA == "FAIL_DATA"
FAIL_LINE_COUNT == "FAIL_LINE_COUNT"
LINE_ERROR_KANA == "LINE_ERROR_KANA"
LINE_ERROR_HANGEUL == "LINE_ERROR_HANGEUL"
LINE_ERROR_EMPTY_LINE == "LINE_ERROR_EMPTY_LINE"
LINE_ERROR_SIMILARITY == "LINE_ERROR_SIMILARITY"
LINE_ERROR_DEGRADATION == "LINE_ERROR_DEGRADATION"

RETRY_COUNT_THRESHOLD == 2

JA == "JA"
KO == "KO"
ZH == "ZH"
EN == "EN"

Hiragana == {"u3042"}
Katakana == {"u30A2"}
Hangeul == {"uD55C"}
Han == {"u4F60"}
Latin == {"a", "b", "h"}
Digits == {"1"}

\* TextPreserver.PLACEHOLDER, one token of the text
PLACEHOLDER == "{PLACEHOLDER}"

any_hiragana(s) == \E k \in 1..Len(s) : s[k] \in Hiragana
any_katakana(s) == \E k \in 1..Len(s) : s[k] \in Katakana
any_hangeul(s) == \E k \in 1..Len(s) : s[k] \in Hangeul

\* RuleFilter.filter(src, skip_internal_filter): a text without any letter needs
\* no translation; the internal rules are skipped on request
RuleFilter(src, skip_internal_filter) ==
    /\ ~skip_internal_filter
    /\ \A k \in 1..Len(src) : src[k] \in Whitespace \cup Digits

\* LanguageFilter.filter(src, source_language): a text without any character of
\* the source language needs no translation
LanguageFilter(src, lang) ==
    LET script == CASE lang = JA -> Hiragana \cup Katakana \cup Han
                    [] lang = KO -> Hangeul
                    [] lang = ZH -> Han
                    [] OTHER -> Latin
    IN  \A k \in 1..Len(src) : src[k] \notin script

\* x in y, for str
Contains(y, x) ==
    \E i \in 0..(Len(y) - Len(x)) : SubSeq(y, i + 1, i + Len(x)) = x

\* RE_DEGRADATION = (.{1,2})\1{16,}: a unit of one or two characters (no line
\* break) followed by at least 16 repetitions of itself.  The modelled texts
\* are lower case, so IGNORECASE changes nothing.
RE_DEGRADATION_search(s) ==
    \E unit \in {1, 2} : \E p \in 1..Len(s) :
        /\ p + 17 * unit - 1 <= Len(s)
        /\ \A k \in 0..(17 * unit - 1) :
               /\ s[p + k] # "\n"
               /\ s[p + k] = s[p + (k % unit)]

\* Rationals as <<numerator, denominator>>, denominator > 0
RatGt(x, y) == x[1] * y[2] > y[1] * x[2]
RatEq(x, y) == x[1] * y[2] = y[1] * x[2]

\* TextHelper.check_similarity_by_jaccard: |set(x) & set(y)| / |set(x) | set(y)|
check_similarity_by_jaccard(x, y) ==
    LET union == Range(x) \cup Range(y)
    IN  IF union = {} THEN <<0, 1>>
        ELSE <<Cardinality(Range(x) \cap Range(y)), Cardinality(union)>>

\* the literal 0.80
SimilarityThreshold == <<4, 5>>

\* Python's True, as a number
PyTrue == <<1, 1>>

\* x > 0.80 == True is a chained comparison: (x > 0.80) and (0.80 == True)
SimilarityTest(x) == RatGt(x, SimilarityThreshold) /\ RatEq(SimilarityThreshold, PyTrue)

\* the condition of the if statement at line 116
ContainsOrSimilar(src, dst) ==
    \/ Contains(dst, src)
    \/ Contains(src, dst)
    \/ SimilarityTest(check_similarity_by_jaccard(src, dst))

\* lines 118 to 130: whether a contained or similar line is reported
SimilarityGate(dst, cfg_src, cfg_tgt) ==
    IF cfg_src = JA /\ cfg_tgt = ZH THEN any_hiragana(dst) \/ any_katakana(dst)
    ELSE IF cfg_src = KO /\ cfg_tgt = ZH THEN any_hangeul(dst)
    ELSE TRUE

\* lines 80 to 113 with the test of line 106 moved before the one of line 101
EarlierRulesKanaFirst(src, dst, item, lang) ==
    IF src # <<>> /\ dst = <<>> THEN LINE_ERROR_EMPTY_LINE
    ELSE IF PLACEHOLDER \in Range(src) THEN NONE
    ELSE IF RuleFilter(src, item.skip_internal_filter) THEN NONE
    ELSE IF LanguageFilter(src, lang) THEN NONE
    ELSE IF lang = JA /\ (any_hiragana(dst) \/ any_katakana(dst)) THEN LINE_ERROR_KANA
    ELSE IF ~RE_DEGRADATION_search(src) /\ RE_DEGRADATION_search(dst)
        THEN LINE_ERROR_DEGRADATION
    ELSE IF lang = KO /\ any_hangeul(dst) THEN LINE_ERROR_HANGEUL
    ELSE "CONTINUE"

\* lines 80 to 113: the rules before the similarity rule, on stripped texts;
\* "CONTINUE" when none of them matches
EarlierRules(src, dst, item, lang) ==
    IF src # <<>> /\ dst = <<>> THEN LINE_ERROR_EMPTY_LINE
    ELSE IF PLACEHOLDER \in Range(src) THEN NONE
    ELSE IF RuleFilter(src, item.skip_internal_filter) THEN NONE
    ELSE IF LanguageFilter(src, lang) THEN NONE
    ELSE IF ~RE_DEGRADATION_search(src) /\ RE_DEGRADATION_search(dst)
        THEN LINE_ERROR_DEGRADATION
    ELSE IF lang = JA /\ (any_hiragana(dst) \/ any_katakana(dst)) THEN LINE_ERROR_KANA
    ELSE IF lang = KO /\ any_hangeul(dst) THEN LINE_ERROR_HANGEUL
    ELSE "CONTINUE"

\* one iteration of the loop of check_lines
check_line(raw_src, raw_dst, item, lang, cfg_src, cfg_tgt) ==
    LET src == strip(raw_src)
        dst == strip(raw_dst)
        early == EarlierRules(src, dst, item, lang)
    IN  IF early # "CONTINUE" THEN early
        ELSE IF ContainsOrSimilar(src, dst) /\ SimilarityGate(dst, cfg_src, cfg_tgt)
            THEN LINE_ERROR_SIMILARITY
        ELSE NONE

Min3(a, b, c) == IF a <= b /\ a <= c THEN a ELSE IF b <= c THEN b ELSE c

\* ResponseChecker.check_lines: zip stops at the shortest of the three
check_lines(srcs, dsts, its, lang, cfg_src, cfg_tgt) ==
    [k \in 1..Min3(Len(srcs), Len(dsts), Len(its)) |->
        check_line(srcs[k], dsts[k], its[k], lang, cfg_src, cfg_tgt)]

Repeat(code, n) == [k \in 1..n |-> code]

checkBypassBeforeData(self_items, srcs, dsts, its, lang, cfg_src, cfg_tgt) ==
    IF Len(self_items) = 1 /\ self_items[1].retry_count >= RETRY_COUNT_THRESHOLD
        THEN Repeat(NONE, Len(srcs))
    ELSE IF Len(dsts) = 0 \/ \A k \in 1..Len(dsts) : dsts[k] = <<>>
        THEN Repeat(FAIL_DATA, Len(srcs))
    ELSE IF Len(srcs) # Len(dsts)
        THEN Repeat(FAIL_LINE_COUNT, Len(srcs))
    ELSE check_lines(srcs, dsts, its, lang, cfg_src, cfg_tgt)

\* ResponseChecker.check; self_items is self.items, its the values of item_dict
check(self_items, srcs, dsts, its, lang, cfg_src, cfg_tgt) ==
    IF Len(dsts) = 0 \/ \A k \in 1..Len(dsts) : dsts[k] = <<>>
        THEN Repeat(FAIL_DATA, Len(srcs))
    ELSE IF Len(self_items) = 1 /\ self_items[1].retry_count >= RETRY_COUNT_THRESHOLD
        THEN Repeat(NONE, Len(srcs))
    ELSE IF Len(srcs) # Len(dsts)
        THEN Repeat(FAIL_LINE_COUNT, Len(srcs))
    ELSE LET error == check_lines(srcs, dsts, its, lang, cfg_src, cfg_tgt)
         IN  IF \E k \in 1..Len(error) : error[k] # NONE
             THEN error
             ELSE Repeat(NONE, Len(srcs))

----------------------------------------------------------------------------
(* The checker applied to bounded inputs *)

TextEmpty == <<>>
TextBlank == <<" ">>
TextAB == <<"a", "b">>
TextBA == <<"b", "a">>
TextDigit == <<"1">>
TextPlaceholder == <<PLACEHOLDER, "a">>
TextKanaHan == <<"u3042", "u4F60">>
TextKana == <<"u3042">>
TextHangeul == <<"uD55C">>
TextHan == <<"u4F60">>
\* "ha" 17 times
TextRepeated == [k \in 1..34 |-> IF k % 2 = 1 THEN "h" ELSE "a"]
\* one hiragana 17 times
TextRepeatedKana == [k \in 1..17 |-> "u3042"]

CheckSrcs == {TextEmpty, TextAB, TextDigit, TextPlaceholder, TextKanaHan, TextHangeul,
              TextRepeated}

CheckDsts == {TextEmpty, TextBlank, TextAB, TextBA, TextHan, TextKana, TextHangeul,
              TextRepeated, TextRepeatedKana}

CheckItems == [retry_count : 0..MaxRetryCount, skip_internal_filter : BOOLEAN]

\* self.source_language and self.target_language; the task passes the
\* configured source language as the argument source_language
CheckConfigLanguages == {<<JA, ZH>>, <<KO, ZH>>, <<EN, ZH>>, <<JA, EN>>}

\* spec.md section 8, scenario 4: three source lines, two returned lines
LineCountScenarioSrc == <<TextAB, TextAB, TextAB>>
LineCountScenarioDst == <<TextHan, TextHan>>

CheckInit ==
    /\ ChunkVarsIdle
    /\ AuxVarsIdle
    /\ TranslatorVarsIdle
    /\ \/ \E n \in 1..MaxLines, m \in 0..MaxLines :
              /\ checker_items \in [1..n -> CheckItems]
              /\ src_dict \in [1..n -> CheckSrcs]
              /\ dst_dict \in [1..m -> CheckDsts]
       \/ /\ checker_items \in [1..3 -> CheckItems]
          /\ src_dict = LineCountScenarioSrc
          /\ dst_dict = LineCountScenarioDst
    /\ \E l \in CheckConfigLanguages :
          /\ cfg_source_language = l[1]
          /\ cfg_target_language = l[2]
    /\ source_language = cfg_source_language
    /\ check_result = <<>>
    /\ check_pc = "input"

\* the task's call of ResponseChecker(config, items).check(...)
Check ==
    /\ check_pc = "input"
    /\ check_result' = check(checker_items, src_dict, dst_dict, checker_items,
                             source_language, cfg_source_language, cfg_target_language)
    /\ check_pc' = "checked"
    /\ UNCHANGED <<checker_items, cfg_source_language, cfg_target_language,
                   src_dict, dst_dict, source_language>>
    /\ UNCHANGED <<chunk_vars, aux_vars, stop_vars, round_vars, file_vars>>

CheckNext == Check

CheckSpec == CheckInit /\ [][CheckNext]_vars

----------------------------------------------------------------------------
(* Properties of the checker *)

DataFailed == Len(dst_dict) = 0 \/ \A k \in 1..Len(dst_dict) : dst_dict[k] = <<>>

SingleItemRetried ==
    Len(checker_items) = 1 /\ checker_items[1].retry_count >= 2

AllCodes(code) == \A k \in 1..Len(check_result) : check_result[k] = code

\* check went on to the per-line rules
PerLineStage ==
    /\ check_pc = "checked"
    /\ ~DataFailed
    /\ ~SingleItemRetried
    /\ Len(src_dict) = Len(dst_dict)

\* C9: check returns one code per entry of src_dict, by the first of these that
\* applies: dst_dict empty or all of its values empty gives all FAIL_DATA (also
\* for a single item retried twice or more); a single item retried twice or
\* more gives all NONE whatever came back; differing line counts give all
\* FAIL_LINE_COUNT; otherwise the per-line results.
BatchRuleOrder ==
    check_pc = "checked" =>
        /\ Len(check_result) = Len(src_dict)
        /\ DataFailed => AllCodes(FAIL_DATA)
        /\ (~DataFailed /\ SingleItemRetried) => AllCodes(NONE)
        /\ (~DataFailed /\ ~SingleItemRetried /\ Len(src_dict) # Len(dst_dict))
               => AllCodes(FAIL_LINE_COUNT)
        /\ PerLineStage =>
               \A k \in 1..Len(src_dict) :
                   check_result[k] =
                       check_line(src_dict[k], dst_dict[k], checker_items[k],
                                  source_language, cfg_source_language,
                                  cfg_target_language)

\* a single item on its second retry, two lines returned for one, accepted
BatchRuleOrderWitness ==
    /\ check_pc = "checked"
    /\ SingleItemRetried
    /\ Len(src_dict) = 1
    /\ Len(dst_dict) = 2
    /\ dst_dict[1] = TextKana
    /\ check_result = <<NONE>>

\* C10: a line that no earlier rule decides is LINE_ERROR_SIMILARITY when src
\* contains dst, or dst contains src, or their Jaccard similarity is above
\* 0.80, provided the gate lets it through (JA to ZH: dst holds kana; KO to ZH:
\* dst holds hangeul; otherwise always), and NONE otherwise.
SimilarityRule ==
    PerLineStage =>
        \A k \in 1..Len(src_dict) :
            LET src == strip(src_dict[k])
                dst == strip(dst_dict[k])
                similar ==
                    \/ Contains(dst, src)
                    \/ Contains(src, dst)
                    \/ RatGt(check_similarity_by_jaccard(src, dst), <<4, 5>>)
                gate ==
                    IF cfg_source_language = JA /\ cfg_target_language = ZH
                        THEN any_hiragana(dst) \/ any_katakana(dst)
                    ELSE IF cfg_source_language = KO /\ cfg_target_language = ZH
                        THEN any_hangeul(dst)
                    ELSE TRUE
            IN  EarlierRules(src, dst, checker_items[k], source_language) = "CONTINUE"
                    => check_result[k] =
                           IF similar /\ gate THEN LINE_ERROR_SIMILARITY ELSE NONE

\* the code of line k when check went on to the per-line rules
LineCode(k) == check_result[k]

LineEmpty(k) == strip(src_dict[k]) # <<>> /\ strip(dst_dict[k]) = <<>>

LineAccepted(k) ==
    \/ PLACEHOLDER \in Range(strip(src_dict[k]))
    \/ RuleFilter(strip(src_dict[k]), checker_items[k].skip_internal_filter)
    \/ LanguageFilter(strip(src_dict[k]), source_language)

LineDegraded(k) ==
    /\ ~RE_DEGRADATION_search(strip(src_dict[k]))
    /\ RE_DEGRADATION_search(strip(dst_dict[k]))

LineKana(k) ==
    /\ source_language = JA
    /\ any_hiragana(strip(dst_dict[k])) \/ any_katakana(strip(dst_dict[k]))

LineHangeul(k) == source_language = KO /\ any_hangeul(strip(dst_dict[k]))

\* C21: check_lines gives each line one code by the first rule that matches, in
\* this order: src non-empty with dst empty gives LINE_ERROR_EMPTY_LINE; src
\* with the placeholder, or accepted by the rule filter or the language filter,
\* gives NONE; dst degraded where src is not gives LINE_ERROR_DEGRADATION;
\* source language JA with kana in dst gives LINE_ERROR_KANA; source language
\* KO with hangeul in dst gives LINE_ERROR_HANGEUL; only then the similarity
\* rule decides between LINE_ERROR_SIMILARITY and NONE.  So an accepted line is
\* never reported as degraded and a degraded line never as kana residue.
LineRuleOrder ==
    PerLineStage =>
        \A k \in 1..Len(src_dict) :
            /\ LineEmpty(k) => LineCode(k) = LINE_ERROR_EMPTY_LINE
            /\ (~LineEmpty(k) /\ LineAccepted(k)) => LineCode(k) = NONE
            /\ (~LineEmpty(k) /\ ~LineAccepted(k) /\ LineDegraded(k))
                   => LineCode(k) = LINE_ERROR_DEGRADATION
            /\ (~LineEmpty(k) /\ ~LineAccepted(k) /\ ~LineDegraded(k) /\ LineKana(k))
                   => LineCode(k) = LINE_ERROR_KANA
            /\ (~LineEmpty(k) /\ ~LineAccepted(k) /\ ~LineDegraded(k) /\ ~LineKana(k)
                   /\ LineHangeul(k))
                   => LineCode(k) = LINE_ERROR_HANGEUL
            /\ (~LineEmpty(k) /\ ~LineAccepted(k) /\ ~LineDegraded(k) /\ ~LineKana(k)
                   /\ ~LineHangeul(k))
                   => LineCode(k) \in {LINE_ERROR_SIMILARITY, NONE}
            /\ (LineAccepted(k) /\ ~LineEmpty(k)) => LineCode(k) # LINE_ERROR_DEGRADATION
            /\ LineDegraded(k) => LineCode(k) # LINE_ERROR_KANA

\* source language JA: a line of repeated kana for a Japanese source is
\* degraded, not kana residue, and a degraded line for a source of digits is
\* accepted
LineRuleOrderWitness ==
    /\ PerLineStage
    /\ source_language = JA
    /\ Len(src_dict) = 2
    /\ src_dict[1] = TextKanaHan /\ dst_dict[1] = TextRepeatedKana
    /\ check_result[1] = LINE_ERROR_DEGRADATION
    /\ src_dict[2] = TextDigit /\ dst_dict[2] = TextRepeated
    /\ ~checker_items[2].skip_internal_filter
    /\ check_result[2] = NONE


(***************************************************************************)
(* Translator: the session thread (translation_start_target), the stop     *)
(* watcher (translation_stop.target), the worker tasks with their          *)
(* completion callback (task_done_callback), and the snapshot ticker of    *)
(* CacheManager (save_to_file_tick).                                       *)
(*                                                                         *)
(* Each action is one step of one thread between two points where another  *)
(* thread can run.  Spec starts a session thread only when no other        *)
(* session thread is alive; RaceSpec, further down, starts one whenever    *)
(* translation_start finds WORK_STATUS at IDLE.                            *)
(***************************************************************************)

\* config.source_language as Config().load() returns it at line 127;
\* config.mtool_optimizer_enable is False, so that the two optimizer passes
\* (lines 183 and 271) return at once
ConfigSourceLanguage == EN

\* what Future.result() gives the callback: a non-empty dict, an empty dict, or
\* something that is not a dict
PendingResult ==
    [kind |-> "pending", row_count |-> 0, input_tokens |-> 0, output_tokens |-> 0]

EmptyResult ==
    [kind |-> "empty", row_count |-> 0, input_tokens |-> 0, output_tokens |-> 0]

NotADictResult ==
    [kind |-> "none", row_count |-> 0, input_tokens |-> 0, output_tokens |-> 0]

DictResult(rows, input, output) ==
    [kind |-> "dict", row_count |-> rows, input_tokens |-> input,
     output_tokens |-> output]

NewTask(chunk) ==
    [pc |-> "created", chunk |-> chunk, result |-> PendingResult,
     new |-> ZeroExtras, arg |-> ZeroExtras]

EndedPcs == {"none", "aborted", "stopped", "done"}

SessionLive == session.pc \notin EndedPcs

CountStatus(its, st) == Cardinality({i \in 1..Len(its) : its[i].status = st})

\* rule_filter followed by language_filter
ApplyFilters(its) ==
    [i \in 1..Len(its) |->
        IF \/ RuleFilter(its[i].src, its[i].skip_internal_filter)
           \/ LanguageFilter(its[i].src, ConfigSourceLanguage)
        THEN [its[i] EXCEPT !.status = EXCLUDED]
        ELSE its[i]]

\* lines 464 to 472: the dict the callback builds from self.extras and result
Fold(e, r) ==
    [total_line |-> e.total_line,
     line |-> e.line + r.row_count,
     total_tokens |-> e.total_tokens + r.input_tokens + r.output_tokens,
     total_output_tokens |-> e.total_output_tokens + r.output_tokens]

\* with self.data_lock: a thread enters only when no thread holds the lock
CanAcquireUnlocked(lock) == TRUE

CanAcquire(lock) == lock = 0

\* ---- the event handlers ----

\* translation_start when WORK_STATUS is IDLE: start the session thread
StartAccepted ==
    /\ starts < MaxStarts
    /\ WORK_STATUS = IDLE
    /\ ~SessionLive
    /\ \E st \in {UNTRANSLATED, TRANSLATING} :
          session' = [pc |-> "l121", status |-> st, current_round |-> 0]
    /\ starts' = starts + 1
    /\ session_no' = session_no + 1
    /\ UNCHANGED <<WORK_STATUS, has_translating, translating, watchers,
                   stop_done, input_items, config_file>>
    /\ UNCHANGED <<chunk_vars, checker_vars, aux_vars, round_vars, file_vars>>

\* translation_start otherwise: a toast, and nothing else
StartRefused ==
    /\ starts < MaxStarts
    /\ WORK_STATUS # IDLE
    /\ starts' = starts + 1
    /\ UNCHANGED <<WORK_STATUS, has_translating, translating, session,
                   session_no, watchers, stop_done, input_items, config_file>>
    /\ UNCHANGED <<chunk_vars, checker_vars, aux_vars, round_vars, file_vars>>

\* translation_stop: lines 48 and 63.  target is the session thread alive when
\* the event arrived (0 when there is none).
translation_stop ==
    /\ Len(watchers) < MaxStops
    /\ WORK_STATUS' = STOPPING
    /\ watchers' = Append(watchers,
                     [pc |-> "poll",
                      target |-> IF SessionLive THEN session_no ELSE 0])
    /\ UNCHANGED <<has_translating, translating, session, session_no, starts,
                   stop_done, input_items, config_file>>
    /\ UNCHANGED <<chunk_vars, checker_vars, aux_vars, round_vars, file_vars>>

\* ---- the stop watcher, lines 50 to 61 ----

\* line 53 when self.translating was never assigned: AttributeError ends the
\* thread
WatcherDies(k) ==
    /\ watchers[k].pc = "poll"
    /\ ~has_translating
    /\ watchers' = [watchers EXCEPT ![k].pc = "dead"]
    /\ UNCHANGED <<WORK_STATUS, has_translating, translating, session,
                   session_no, starts, stop_done, input_items, config_file>>
    /\ UNCHANGED <<chunk_vars, checker_vars, aux_vars, round_vars, file_vars>>

\* line 53 reads False
WatcherSeesFalse(k) ==
    /\ watchers[k].pc = "poll"
    /\ has_translating
    /\ ~translating
    /\ watchers' = [watchers EXCEPT ![k].pc = "l59"]
    /\ UNCHANGED <<WORK_STATUS, has_translating, translating, session,
                   session_no, starts, stop_done, input_items, config_file>>
    /\ UNCHANGED <<chunk_vars, checker_vars, aux_vars, round_vars, file_vars>>

\* line 53 reads True: sleep and poll again
WatcherSeesTrue(k) ==
    /\ watchers[k].pc = "poll"
    /\ has_translating
    /\ translating
    /\ UNCHANGED vars

\* lines 59 and 60
WatcherFinishes(k) ==
    /\ watchers[k].pc = "l59"
    /\ WORK_STATUS' = IDLE
    /\ stop_done' = stop_done \cup {<<"watcher", k>>}
    /\ watchers' = [watchers EXCEPT ![k].pc = "done"]
    /\ UNCHANGED <<has_translating, translating, session, session_no, starts,
                   input_items, config_file>>
    /\ UNCHANGED <<chunk_vars, checker_vars, aux_vars, round_vars, file_vars>>

\* ---- the session thread, translation_start_target ----

SessionGoto(pc) == session' = [session EXCEPT !.pc = pc]

\* line 121
SessionSetsTranslating ==
    /\ session.pc = "l121"
    /\ has_translating' = TRUE
    /\ translating' = TRUE
    /\ SessionGoto("l124")
    /\ UNCHANGED <<WORK_STATUS, session_no, starts, watchers, stop_done,
                   input_items, config_file>>
    /\ UNCHANGED <<chunk_vars, checker_vars, aux_vars, round_vars, file_vars>>

\* lines 124 to 136: WORK_STATUS, and the configuration is loaded anew
SessionSetsWorkStatus ==
    /\ session.pc = "l124"
    /\ WORK_STATUS' = TRANSLATING
    /\ token_threshold' = config_file.token_threshold
    /\ preceding_lines_threshold' =
          config_file.preceding_lines_threshold
    /\ SessionGoto("load")
    /\ UNCHANGED <<has_translating, translating, session_no, starts, watchers,
                   stop_done, input_items, config_file>>
    /\ UNCHANGED <<items, chunks, preceding_chunks, plan_pc>>
    /\ UNCHANGED <<checker_vars, aux_vars, round_vars, file_vars>>

\* lines 141 to 147 on a fresh start, when read_from_path succeeds
SessionReadsInput ==
    /\ session.pc = "load"
    /\ session.status # TRANSLATING
    /\ file_items' = [exists |-> FALSE, content |-> <<>>]
    /\ file_project' = [exists |-> FALSE, content |-> EmptyProject]
    /\ items' = input_items
    /\ project' = EmptyProject
    /\ SessionGoto("prepare")
    /\ UNCHANGED <<WORK_STATUS, has_translating, translating, session_no,
                   starts, watchers, stop_done, input_items, config_file>>
    /\ UNCHANGED <<token_threshold, preceding_lines_threshold, chunks,
                   preceding_chunks, plan_pc>>
    /\ UNCHANGED <<extras, round_base, tasks, data_lock, save_flag>>
    /\ UNCHANGED <<checker_vars, aux_vars, ticker_pc>>

\* lines 141 to 150 on a fresh start, when read_from_path raises: the thread
\* logs and returns
SessionReadFails ==
    /\ session.pc = "load"
    /\ session.status # TRANSLATING
    /\ file_items' = [exists |-> FALSE, content |-> <<>>]
    /\ file_project' = [exists |-> FALSE, content |-> EmptyProject]
    /\ SessionGoto("aborted")
    /\ UNCHANGED <<WORK_STATUS, has_translating, translating, session_no,
                   starts, watchers, stop_done, input_items, config_file>>
    /\ UNCHANGED <<chunk_vars, checker_vars, aux_vars, round_vars, ticker_pc>>

\* line 142, load_from_file lines 101 to 108: items.json
SessionLoadsItems ==
    /\ session.pc = "load"
    /\ session.status = TRANSLATING
    /\ items' = IF file_items.exists THEN file_items.content ELSE items
    /\ SessionGoto("load_project")
    /\ UNCHANGED <<WORK_STATUS, has_translating, translating, session_no,
                   starts, watchers, stop_done, input_items, config_file>>
    /\ UNCHANGED <<token_threshold, preceding_lines_threshold, chunks,
                   preceding_chunks, plan_pc>>
    /\ UNCHANGED <<checker_vars, aux_vars, round_vars, file_vars>>

\* load_from_file lines 110 to 117: project.json
SessionLoadsProject ==
    /\ session.pc = "load_project"
    /\ project' = IF file_project.exists THEN file_project.content ELSE project
    /\ SessionGoto("prepare")
    /\ UNCHANGED <<WORK_STATUS, has_translating, translating, session_no,
                   starts, watchers, stop_done, input_items, config_file>>
    /\ UNCHANGED <<extras, round_base, tasks, data_lock, save_flag>>
    /\ UNCHANGED <<chunk_vars, checker_vars, aux_vars, file_vars>>

\* lines 160 to 183: self.extras and the filters
SessionPrepares ==
    /\ session.pc = "prepare"
    /\ extras' = IF session.status = TRANSLATING THEN project.extras
                                                ELSE ZeroExtras
    /\ items' = ApplyFilters(items)
    /\ SessionGoto("loop")
    /\ UNCHANGED <<WORK_STATUS, has_translating, translating, session_no,
                   starts, watchers, stop_done, input_items, config_file>>
    /\ UNCHANGED <<token_threshold, preceding_lines_threshold, chunks,
                   preceding_chunks, plan_pc>>
    /\ UNCHANGED <<round_base, project, tasks, data_lock, save_flag>>
    /\ UNCHANGED <<checker_vars, aux_vars, file_vars>>

\* line 188 finds STOPPING
SessionSeesStopping ==
    /\ session.pc = "loop"
    /\ WORK_STATUS = STOPPING
    /\ SessionGoto("l191")
    /\ UNCHANGED <<WORK_STATUS, has_translating, translating, session_no,
                   starts, watchers, stop_done, input_items, config_file>>
    /\ UNCHANGED <<chunk_vars, checker_vars, aux_vars, round_vars, file_vars>>

\* lines 199 to 212: nothing left to translate, or the last round is reached
SessionBreaks ==
    /\ session.pc = "loop"
    /\ WORK_STATUS # STOPPING
    /\ \/ CountStatus(items, UNTRANSLATED) = 0
       \/ session.current_round = config_file.max_round
    /\ SessionGoto("finalize")
    /\ UNCHANGED <<WORK_STATUS, has_translating, translating, session_no,
                   starts, watchers, stop_done, input_items, config_file>>
    /\ UNCHANGED <<chunk_vars, checker_vars, aux_vars, round_vars, file_vars>>

\* line 220 with the divisor the comment at line 218 speaks of
NextBudgetHalved(t) == Max(1, IntDiv(t, 2))

\* line 220: max(1, int(token_threshold / 3))
NextBudget(t) == Max(1, IntDiv(t, 3))

EmptyPreceding(pcs) == [k \in 1..Len(pcs) |-> <<>>]

\* lines 215 to 245: total_line, the threshold of the round, the plan, the tasks
SessionPlans ==
    /\ session.pc = "loop"
    /\ WORK_STATUS # STOPPING
    /\ CountStatus(items, UNTRANSLATED) > 0
    /\ session.current_round # config_file.max_round
    /\ extras' = IF session.current_round = 0 /\ session.status = UNTRANSLATED
                 THEN [extras EXCEPT
                          !.total_line = CountStatus(items, UNTRANSLATED)]
                 ELSE extras
    /\ token_threshold' = IF session.current_round > 0
                          THEN NextBudget(token_threshold)
                          ELSE token_threshold
    /\ LET plan == generate_item_chunks(items, token_threshold',
                                        preceding_lines_threshold)
       IN  /\ chunks' = plan.chunks
           /\ preceding_chunks' = IF session.current_round > 0
                                  THEN EmptyPreceding(plan.preceding_chunks)
                                  ELSE plan.preceding_chunks
           /\ tasks' = [k \in 1..Len(plan.chunks) |-> NewTask(plan.chunks[k])]
    /\ round_base' = extras'
    /\ SessionGoto("submit")
    /\ UNCHANGED <<WORK_STATUS, has_translating, translating, session_no,
                   starts, watchers, stop_done, input_items, config_file>>
    /\ UNCHANGED <<items, preceding_lines_threshold, plan_pc>>
    /\ UNCHANGED <<project, data_lock, save_flag>>
    /\ UNCHANGED <<checker_vars, aux_vars, file_vars>>

FirstCreated == CHOOSE k \in 1..Len(tasks) :
                    /\ tasks[k].pc = "created"
                    /\ \A j \in 1..(k - 1) : tasks[j].pc # "created"

\* lines 265 to 268: the tasks are submitted in order
SessionSubmits ==
    /\ session.pc = "submit"
    /\ \E k \in 1..Len(tasks) : tasks[k].pc = "created"
    /\ tasks' = [tasks EXCEPT ![FirstCreated].pc = "running"]
    /\ SessionGoto(IF FirstCreated = Len(tasks) THEN "join" ELSE "submit")
    /\ UNCHANGED <<WORK_STATUS, has_translating, translating, session_no,
                   starts, watchers, stop_done, input_items, config_file>>
    /\ UNCHANGED <<extras, round_base, project, data_lock, save_flag>>
    /\ UNCHANGED <<chunk_vars, checker_vars, aux_vars, file_vars>>

\* leaving the with block without waiting for the pool
PoolJoinedAtOnce == TRUE

\* ThreadPoolExecutor.__exit__: every task and its callback is over
PoolJoined == \A k \in 1..Len(tasks) : tasks[k].pc = "done"

\* the end of the with block at line 265: every task and its callback is over,
\* and the tasks and chunks of the round are dropped
SessionJoins ==
    /\ session.pc = "join"
    /\ PoolJoined
    /\ session' = [session EXCEPT !.pc = "loop",
                                  !.current_round = session.current_round + 1]
    /\ tasks' = <<>>
    /\ chunks' = <<>>
    /\ preceding_chunks' = <<>>
    /\ UNCHANGED <<WORK_STATUS, has_translating, translating, session_no,
                   starts, watchers, stop_done, input_items, config_file>>
    /\ UNCHANGED <<items, token_threshold, preceding_lines_threshold, plan_pc>>
    /\ UNCHANGED <<extras, round_base, project, data_lock, save_flag>>
    /\ UNCHANGED <<checker_vars, aux_vars, file_vars>>

\* line 191
SessionStopClearsTranslating ==
    /\ session.pc = "l191"
    /\ translating' = FALSE
    /\ SessionGoto("l192")
    /\ UNCHANGED <<WORK_STATUS, has_translating, session_no, starts, watchers,
                   stop_done, input_items, config_file>>
    /\ UNCHANGED <<chunk_vars, checker_vars, aux_vars, round_vars, file_vars>>

\* lines 192 and 193
SessionStopSetsIdle ==
    /\ session.pc = "l192"
    /\ WORK_STATUS' = IDLE
    /\ SessionGoto("stopped")
    /\ UNCHANGED <<has_translating, translating, session_no, starts, watchers,
                   stop_done, input_items, config_file>>
    /\ UNCHANGED <<chunk_vars, checker_vars, aux_vars, round_vars, file_vars>>

\* lines 271 to 281: the project is TRANSLATED when nothing is left, then the
\* sleep and the output files
SessionFinalizes ==
    /\ session.pc = "finalize"
    /\ project' = IF CountStatus(items, UNTRANSLATED) = 0
                  THEN [project EXCEPT !.status = TRANSLATED]
                  ELSE project
    /\ SessionGoto("l284")
    /\ UNCHANGED <<WORK_STATUS, has_translating, translating, session_no,
                   starts, watchers, stop_done, input_items, config_file>>
    /\ UNCHANGED <<extras, round_base, tasks, data_lock, save_flag>>
    /\ UNCHANGED <<chunk_vars, checker_vars, aux_vars, file_vars>>

\* line 284
SessionEndClearsTranslating ==
    /\ session.pc = "l284"
    /\ translating' = FALSE
    /\ SessionGoto("l285")
    /\ UNCHANGED <<WORK_STATUS, has_translating, session_no, starts, watchers,
                   stop_done, input_items, config_file>>
    /\ UNCHANGED <<chunk_vars, checker_vars, aux_vars, round_vars, file_vars>>

\* line 285
SessionEndSetsIdle ==
    /\ session.pc = "l285"
    /\ WORK_STATUS' = IDLE
    /\ SessionGoto("l288")
    /\ UNCHANGED <<has_translating, translating, session_no, starts, watchers,
                   stop_done, input_items, config_file>>
    /\ UNCHANGED <<chunk_vars, checker_vars, aux_vars, round_vars, file_vars>>

\* line 288
SessionEmitsStopDone ==
    /\ session.pc = "l288"
    /\ stop_done' = stop_done \cup {<<"session", session_no>>}
    /\ SessionGoto("done")
    /\ UNCHANGED <<WORK_STATUS, has_translating, translating, session_no,
                   starts, watchers, input_items, config_file>>
    /\ UNCHANGED <<chunk_vars, checker_vars, aux_vars, round_vars, file_vars>>

\* ---- the worker tasks (TranslatorTask.start) and task_done_callback ----

TaskGoto(t, pc) == tasks' = [tasks EXCEPT ![t].pc = pc]

\* the usage counts a request reports
SessionInputTokens == 1
SessionOutputTokens == 1

\* a transport or parse exception inside the task: an empty result, and the
\* items are left as they were
TaskFails(t) ==
    /\ tasks[t].pc = "running"
    /\ tasks' = [tasks EXCEPT ![t].pc = "cb", ![t].result = EmptyResult]
    /\ UNCHANGED <<extras, round_base, project, data_lock, save_flag>>
    /\ UNCHANGED <<chunk_vars, checker_vars, aux_vars, stop_vars, file_vars>>

\* the task translates the lines of its chunk that pass the checker, and
\* returns row_count, input_tokens and output_tokens
TaskTranslates(t) ==
    /\ tasks[t].pc = "running"
    /\ \E done \in SUBSET Range(tasks[t].chunk) :
          /\ items' = [i \in 1..Len(items) |->
                          IF i \in done
                          THEN [items[i] EXCEPT !.status = TRANSLATED]
                          ELSE items[i]]
          /\ tasks' = [tasks EXCEPT
                          ![t].pc = "cb",
                          ![t].result = DictResult(Cardinality(done),
                                                   SessionInputTokens,
                                                   SessionOutputTokens)]
    /\ UNCHANGED <<token_threshold, preceding_lines_threshold, chunks,
                   preceding_chunks, plan_pc>>
    /\ UNCHANGED <<extras, round_base, project, data_lock, save_flag>>
    /\ UNCHANGED <<checker_vars, aux_vars, stop_vars, file_vars>>

\* lines 458 to 462: a result that is not a dict, or is empty, ends the callback
CallbackSkips(t) ==
    /\ tasks[t].pc = "cb"
    /\ tasks[t].result.kind # "dict"
    /\ TaskGoto(t, "done")
    /\ UNCHANGED <<extras, round_base, project, data_lock, save_flag>>
    /\ UNCHANGED <<chunk_vars, checker_vars, aux_vars, stop_vars, file_vars>>

\* lines 465 to 472: take data_lock and build new from self.extras
CallbackFolds(t) ==
    /\ tasks[t].pc = "cb"
    /\ tasks[t].result.kind = "dict"
    /\ CanAcquire(data_lock)
    /\ data_lock' = t
    /\ tasks' = [tasks EXCEPT ![t].pc = "l473",
                              ![t].new = Fold(extras, tasks[t].result)]
    /\ UNCHANGED <<extras, round_base, project, save_flag>>
    /\ UNCHANGED <<chunk_vars, checker_vars, aux_vars, stop_vars, file_vars>>

\* line 473, and data_lock is released
CallbackAssigns(t) ==
    /\ tasks[t].pc = "l473"
    /\ extras' = tasks[t].new
    /\ data_lock' = 0
    /\ TaskGoto(t, "l476")
    /\ UNCHANGED <<round_base, project, save_flag>>
    /\ UNCHANGED <<chunk_vars, checker_vars, aux_vars, stop_vars, file_vars>>

\* line 476: the argument self.extras is evaluated
CallbackReadsExtras(t) ==
    /\ tasks[t].pc = "l476"
    /\ tasks' = [tasks EXCEPT ![t].pc = "l476call", ![t].arg = extras]
    /\ UNCHANGED <<extras, round_base, project, data_lock, save_flag>>
    /\ UNCHANGED <<chunk_vars, checker_vars, aux_vars, stop_vars, file_vars>>

\* line 476: set_extras stores it
CallbackSetsExtras(t) ==
    /\ tasks[t].pc = "l476call"
    /\ project' = [project EXCEPT !.extras = tasks[t].arg]
    /\ TaskGoto(t, "l479")
    /\ UNCHANGED <<extras, round_base, data_lock, save_flag>>
    /\ UNCHANGED <<chunk_vars, checker_vars, aux_vars, stop_vars, file_vars>>

\* lines 479 to 485: set_status, require_save_to_file, and the update event;
\* the callback returns and its locals are gone
CallbackRequestsSave(t) ==
    /\ tasks[t].pc = "l479"
    /\ project' = [project EXCEPT !.status = TRANSLATING]
    /\ save_flag' = TRUE
    /\ tasks' = [tasks EXCEPT ![t].pc = "done", ![t].new = ZeroExtras,
                              ![t].arg = ZeroExtras]
    /\ UNCHANGED <<extras, round_base, data_lock>>
    /\ UNCHANGED <<chunk_vars, checker_vars, aux_vars, stop_vars, file_vars>>

CallbackStep(t) ==
    \/ CallbackSkips(t)
    \/ CallbackFolds(t)
    \/ CallbackAssigns(t)
    \/ CallbackReadsExtras(t)
    \/ CallbackSetsExtras(t)
    \/ CallbackRequestsSave(t)

\* ---- the snapshot ticker, CacheManager.save_to_file_tick ----
\* The item list and the project are mutable objects handed over by reference
\* (lines 82 to 86), so each write stores them as they are when it happens.

\* lines 74 to 79: the sleep is over and the flag is set
TickerSeesFlag ==
    /\ ticker_pc = "sleep"
    /\ save_flag
    /\ ticker_pc' = "save_items"
    /\ UNCHANGED <<file_items, file_project>>
    /\ UNCHANGED <<chunk_vars, checker_vars, aux_vars, stop_vars, round_vars>>

\* save_to_file lines 53 to 59: items.json, under FILE_LOCK
TickerWritesItems ==
    /\ ticker_pc = "save_items"
    /\ file_items' = [exists |-> TRUE, content |-> items]
    /\ ticker_pc' = "save_project"
    /\ UNCHANGED file_project
    /\ UNCHANGED <<chunk_vars, checker_vars, aux_vars, stop_vars, round_vars>>

\* save_to_file lines 62 to 68: project.json, under FILE_LOCK
TickerWritesProject ==
    /\ ticker_pc = "save_project"
    /\ file_project' = [exists |-> TRUE, content |-> project]
    /\ ticker_pc' = "clear"
    /\ UNCHANGED file_items
    /\ UNCHANGED <<chunk_vars, checker_vars, aux_vars, stop_vars, round_vars>>

\* lines 89 to 92: the event, and the flag is reset
TickerClearsFlag ==
    /\ ticker_pc = "clear"
    /\ save_flag' = FALSE
    /\ ticker_pc' = "sleep"
    /\ UNCHANGED <<extras, round_base, project, tasks, data_lock>>
    /\ UNCHANGED <<file_items, file_project>>
    /\ UNCHANGED <<chunk_vars, checker_vars, aux_vars, stop_vars>>

TickerStep ==
    \/ TickerSeesFlag
    \/ TickerWritesItems
    \/ TickerWritesProject
    \/ TickerClearsFlag

\* ---- the session specification ----

SessionItem(path, src, tokens) ==
    [status |-> UNTRANSLATED, file_path |-> path, src |-> src,
     token_count |-> tokens, skip_internal_filter |-> FALSE]

\* what the input files can hold: a fragment, a sentence (two sentences do not
\* fit one chunk), and a line of digits (which rule_filter excludes)
SessionItemPool ==
    { SessionItem("f1", SrcFragment, 1), SessionItem("f1", SrcSentence, 2),
      SessionItem("f1", TextDigit, 1) }

SessionItemLists ==
    UNION {[1..n -> SessionItemPool] : n \in 0..MaxSessionItems}

Init ==
    /\ ChunkVarsIdle
    /\ CheckerVarsIdle
    /\ AuxVarsIdle
    /\ WORK_STATUS = IDLE
    /\ has_translating = FALSE
    /\ translating = FALSE
    /\ session = NoSession
    /\ session_no = 0
    /\ starts = 0
    /\ watchers = <<>>
    /\ stop_done = {}
    /\ input_items \in SessionItemLists
    /\ config_file = DefaultConfig
    /\ extras = ZeroExtras
    /\ round_base = ZeroExtras
    /\ project = EmptyProject
    /\ tasks = <<>>
    /\ data_lock = 0
    /\ save_flag = FALSE
    /\ ticker_pc = "sleep"
    /\ file_items = [exists |-> FALSE, content |-> <<>>]
    /\ file_project = [exists |-> FALSE, content |-> EmptyProject]

SessionStep ==
    \/ SessionSetsTranslating
    \/ SessionSetsWorkStatus
    \/ SessionReadsInput
    \/ SessionReadFails
    \/ SessionLoadsItems
    \/ SessionLoadsProject
    \/ SessionPrepares
    \/ SessionSeesStopping
    \/ SessionBreaks
    \/ SessionPlans
    \/ SessionSubmits
    \/ SessionJoins
    \/ SessionStopClearsTranslating
    \/ SessionStopSetsIdle
    \/ SessionFinalizes
    \/ SessionEndClearsTranslating
    \/ SessionEndSetsIdle
    \/ SessionEmitsStopDone

WatcherStep(k) ==
    \/ WatcherDies(k)
    \/ WatcherSeesFalse(k)
    \/ WatcherSeesTrue(k)
    \/ WatcherFinishes(k)

TaskStep(t) ==
    \/ TaskFails(t)
    \/ TaskTranslates(t)
    \/ CallbackStep(t)

Next ==
    \/ StartAccepted
    \/ StartRefused
    \/ translation_stop
    \/ SessionStep
    \/ \E k \in 1..Len(watchers) : WatcherStep(k)
    \/ \E t \in 1..Len(tasks) : TaskStep(t)
    \/ TickerStep

Spec == Init /\ [][Next]_vars

\* every thread that can take a step eventually takes one
Fairness ==
    /\ WF_vars(SessionStep)
    /\ WF_vars(TickerStep)
    /\ \A k \in 1..MaxStops : WF_vars(k \in 1..Len(watchers) /\ WatcherStep(k))
    /\ \A t \in 1..MaxSessionItems :
          WF_vars(t \in 1..Len(tasks) /\ TaskStep(t))

FairSpec == Spec /\ Fairness

\* a round whose tasks have all returned and whose callbacks are about to run,
\* in any order and interleaved
RoundStartExtras ==
    {[total_line |-> MaxRoundTasks + 1, line |-> l, total_tokens |-> 2 * l,
      total_output_tokens |-> l] : l \in 0..1}

CallbackPending(result) == [NewTask(<<>>) EXCEPT !.pc = "cb", !.result = result]

\* the results a round's tasks can return, in some fixed order
RoundResults ==
    << EmptyResult, NotADictResult,
       DictResult(0, MaxUsage, 0), DictResult(0, MaxUsage, MaxUsage),
       DictResult(1, MaxUsage, 0), DictResult(1, MaxUsage, MaxUsage) >>

\* the callback does not look at the position of its task, so the results of
\* a round are drawn in non-decreasing order of their index in RoundResults
RoundTaskLists ==
    UNION {{[k \in 1..n |-> CallbackPending(RoundResults[f[k]])] :
               f \in {g \in [1..n -> 1..Len(RoundResults)] :
                         \A k \in 1..(n - 1) : g[k] <= g[k + 1]}} :
           n \in 1..MaxRoundTasks}

RoundInit ==
    /\ ChunkVarsIdle
    /\ CheckerVarsIdle
    /\ AuxVarsIdle
    /\ WORK_STATUS = TRANSLATING
    /\ has_translating = TRUE
    /\ translating = TRUE
    /\ session = [pc |-> "join", status |-> UNTRANSLATED, current_round |-> 0]
    /\ session_no = 1
    /\ starts = 1
    /\ watchers = <<>>
    /\ stop_done = {}
    /\ input_items = <<>>
    /\ config_file = DefaultConfig
    /\ extras \in RoundStartExtras
    /\ round_base = extras
    /\ project = [status |-> UNTRANSLATED, extras |-> extras]
    /\ tasks \in RoundTaskLists
    /\ data_lock = 0
    /\ save_flag = FALSE
    /\ ticker_pc = "sleep"
    /\ file_items = [exists |-> FALSE, content |-> <<>>]
    /\ file_project = [exists |-> FALSE, content |-> EmptyProject]

RoundNext == \E t \in 1..Len(tasks) : CallbackStep(t)

RoundSpec == RoundInit /\ [][RoundNext]_vars

----------------------------------------------------------------------------
(* Properties of the Translator *)

NoWatcherDied == \A k \in 1..Len(watchers) : watchers[k].pc # "dead"

\* C5: after a STOP, WORK_STATUS eventually returns to IDLE and does not stay
\* STOPPING forever (stated for the STOPs whose watcher can read
\* self.translating, some session thread having assigned it)
StopLiveness ==
    (WORK_STATUS = STOPPING /\ has_translating /\ NoWatcherDied)
        ~> (WORK_STATUS = IDLE)

\* C6: the watcher of a STOP and the session thread that was alive when the
\* STOP arrived never both emit TRANSLATION_STOP_DONE
StopDoneOnce ==
    \A k \in 1..Len(watchers) :
        ~ /\ <<"watcher", k>> \in stop_done
          /\ watchers[k].target # 0
          /\ <<"session", watchers[k].target>> \in stop_done

ResultsOf(field) ==
    SumSeq([k \in 1..Len(tasks) |->
               IF tasks[k].result.kind = "dict" THEN tasks[k].result[field]
                                                ELSE 0])

AllCallbacksDone == \A k \in 1..Len(tasks) : tasks[k].pc = "done"

ExtrasFolded ==
    AllCallbacksDone =>
        /\ extras.line = round_base.line + ResultsOf("row_count")
        /\ extras.total_tokens =
               round_base.total_tokens + ResultsOf("input_tokens")
                                       + ResultsOf("output_tokens")
        /\ extras.total_output_tokens =
               round_base.total_output_tokens + ResultsOf("output_tokens")

ExtrasNonDecreasing ==
    /\ extras'.line >= extras.line
    /\ extras'.total_tokens >= extras.total_tokens
    /\ extras'.total_output_tokens >= extras.total_output_tokens

NonDictChangesNothing ==
    \A t \in 1..Len(tasks) :
        (tasks[t].result.kind # "dict" /\ tasks'[t] # tasks[t]) =>
            extras' = extras /\ project' = project

\* C7: whatever the order and interleaving of the callbacks of a round, once
\* all have run the three counts of extras are their values at the start of the
\* round plus the sums over the non-empty dict results; no step decreases one
\* of them; the callback of an empty or non-dict result changes nothing.
ExtrasAggregation ==
    /\ []ExtrasFolded
    /\ [][ExtrasNonDecreasing]_vars
    /\ [][NonDictChangesNothing]_vars

ExtrasAggregationWitness ==
    /\ Len(tasks) = MaxRoundTasks
    /\ AllCallbacksDone
    /\ \A k \in 1..Len(tasks) : /\ tasks[k].result.kind = "dict"
                                /\ tasks[k].result.row_count > 0
    /\ extras.line = round_base.line + Len(tasks)
    /\ round_base.line > 0
    /\ project.extras = extras

\* round 0 of the session is planned, and total_line holds a count that line
\* 216 stored, in this session or in the session whose snapshot was loaded
RoundZeroPlanned ==
    /\ session.pc \in {"submit", "join"} \/ session.current_round > 0
    /\ extras.total_line > 0

\* C8: once round 0 has fixed total_line, extras.line <= extras.total_line
LineWithinTotal ==
    RoundZeroPlanned => extras.line <= extras.total_line

----------------------------------------------------------------------------
(***************************************************************************)
(* ResponseDecoder.decode.  json_repair.loads is a library call: a         *)
(* response is given by what loads returns for each line of the text and   *)
(* for the whole text.  A JSON object is the sequence of its key/value     *)
(* pairs in order; dst_dict is the sequence of its key/value pairs in      *)
(* insertion order, its keys being sequences of digit characters.          *)
(***************************************************************************)

JsonStr(s) == [is_str |-> TRUE, val |-> s]
JsonNum == [is_str |-> FALSE, val |-> "1"]
JsonNone == [is_str |-> FALSE, val |-> "None"]
JsonDict(pairs) == [is_dict |-> TRUE, pairs |-> pairs]
JsonOther == [is_dict |-> FALSE, pairs |-> <<>>]

HasKey(pairs, key) == \E k \in 1..Len(pairs) : pairs[k][1] = key

\* dict.get(key)
DictGet(pairs, key) ==
    IF HasKey(pairs, key)
    THEN pairs[CHOOSE k \in 1..Len(pairs) : pairs[k][1] = key][2]
    ELSE JsonNone

\* d[key] = v on a dict that keeps insertion order
DictSet(d, key, v) ==
    IF HasKey(d, key)
    THEN [k \in 1..Len(d) |-> IF d[k][1] = key THEN <<key, v>> ELSE d[k]]
    ELSE Append(d, <<key, v>>)

DigitChar(n) == <<"0", "1", "2", "3", "4", "5", "6", "7", "8", "9">>[n + 1]

\* str(n) of a non-negative int
RECURSIVE str(_)
str(n) == IF n < 10 THEN <<DigitChar(n)>>
                    ELSE str(n \div 10) \o <<DigitChar(n % 10)>>

\* lines 20 to 23
DecodeTranslation(dst, json_data) ==
    IF /\ json_data.is_dict
       /\ Len(json_data.pairs) = 1
       /\ json_data.pairs[1][2].is_str
    THEN DictSet(dst, str(Len(dst)), json_data.pairs[1][2].val)
    ELSE dst

StrOrEmpty(v) == IF v.is_str THEN v.val ELSE ""

\* lines 26 to 37
DecodeGlossary(glossary, json_data) ==
    IF /\ json_data.is_dict
       /\ Len(json_data.pairs) = 3
       /\ \E key \in {"src", "dst", "gender"} : HasKey(json_data.pairs, key)
    THEN Append(glossary,
                [src |-> StrOrEmpty(DictGet(json_data.pairs, "src")),
                 dst |-> StrOrEmpty(DictGet(json_data.pairs, "dst")),
                 info |-> StrOrEmpty(DictGet(json_data.pairs, "gender"))])
    ELSE glossary

\* lines 16 to 37
RECURSIVE DecodeLines(_, _, _)
DecodeLines(lines, dst, glossary) ==
    IF lines = <<>>
    THEN [dst_dict |-> dst, glossary_list |-> glossary]
    ELSE DecodeLines(Tail(lines), DecodeTranslation(dst, Head(lines)),
                     DecodeGlossary(glossary, Head(lines)))

\* lines 43 to 45
RECURSIVE DecodeWhole(_, _)
DecodeWhole(pairs, dst) ==
    IF pairs = <<>>
    THEN dst
    ELSE DecodeWhole(Tail(pairs),
                     IF Head(pairs)[2].is_str
                     THEN DictSet(dst, str(Len(dst)), Head(pairs)[2].val)
                     ELSE dst)

\* line 40
FallbackAlways(dst) == TRUE

FallbackNeeded(dst) == Len(dst) = 0

decode(resp) ==
    LET r == DecodeLines(resp.lines, <<>>, <<>>)
    IN  IF FallbackNeeded(r.dst_dict) /\ resp.whole.is_dict
        THEN [r EXCEPT !.dst_dict = DecodeWhole(resp.whole.pairs, r.dst_dict)]
        ELSE r

\* what loads can return for a line or for the text
JsonValues ==
    { JsonOther,
      JsonDict(<<>>),
      JsonDict(<< <<"0", JsonStr("x")>> >>),
      JsonDict(<< <<"0", JsonNum>> >>),
      JsonDict(<< <<"a", JsonStr("y")>>, <<"b", JsonStr("x")>> >>),
      JsonDict(<< <<"a", JsonStr("x")>>, <<"b", JsonNum>>, <<"c", JsonStr("y")>> >>),
      JsonDict(<< <<"src", JsonStr("x")>>, <<"dst", JsonStr("y")>>,
                  <<"gender", JsonNum>> >>),
      JsonDict(<< <<"src", JsonStr("x")>>, <<"b", JsonStr("y")>>,
                  <<"c", JsonStr("x")>> >>) }

\* an object of eleven strings spread over two lines, neither of which parses
ElevenStrings ==
    JsonDict([k \in 1..11 |->
                 << <<"a", "b", "c", "d", "e", "f", "g", "h", "i", "j", "k">>[k],
                    JsonStr(IF k % 2 = 0 THEN "x" ELSE "y") >>])

\* the empty text has no line, a text of one line parses as its line does
DecodeInit ==
    /\ ChunkVarsIdle
    /\ CheckerVarsIdle
    /\ TranslatorVarsIdle
    /\ \/ response = [lines |-> <<>>, whole |-> JsonOther]
       \/ \E v \in JsonValues : response = [lines |-> <<v>>, whole |-> v]
       \/ \E n \in 2..MaxResponseLines :
             \E ls \in [1..n -> JsonValues], w \in JsonValues :
                response = [lines |-> ls, whole |-> w]
       \/ response = [lines |-> <<JsonOther, JsonOther>>, whole |-> ElevenStrings]
    /\ decoded = [dst_dict |-> <<>>, glossary_list |-> <<>>]
    /\ decode_pc = "input"
    /\ WorkersVarsIdle
    /\ SnapshotVarsIdle
    /\ RaceVarsIdle
    /\ SideVarsIdle

\* the task's call of ResponseDecoder().decode(response)
Decode ==
    /\ decode_pc = "input"
    /\ decoded' = decode(response)
    /\ decode_pc' = "decoded"
    /\ UNCHANGED <<response, workers_vars, snapshot, race_vars, side_vars>>
    /\ UNCHANGED <<chunk_vars, checker_vars, stop_vars, round_vars, file_vars>>

DecodeNext == Decode

DecodeSpec == DecodeInit /\ [][DecodeNext]_vars

(* Properties of the decoder *)

\* "0", "1", ... as Python writes them
DecimalKeys ==
    << <<"0">>, <<"1">>, <<"2">>, <<"3">>, <<"4">>, <<"5">>, <<"6">>, <<"7">>,
       <<"8">>, <<"9">>, <<"1", "0">>, <<"1", "1">> >>

IsTranslationLine(json_data) ==
    /\ json_data.is_dict
    /\ Len(json_data.pairs) = 1
    /\ json_data.pairs[1][2].is_str

IsGlossaryLine(json_data) ==
    /\ json_data.is_dict
    /\ Len(json_data.pairs) = 3
    /\ {"src", "dst", "gender"} \cap {json_data.pairs[k][1] : k \in 1..3} # {}

\* the translations of the line-wise pass, in the order of the lines
LineTranslations ==
    LET ls == SelectSeq(response.lines, IsTranslationLine)
    IN  [k \in 1..Len(ls) |-> ls[k].pairs[1][2].val]

IsStrPair(pair) == pair[2].is_str

\* the string values of the whole response parsed as one object, in order
WholeTranslations ==
    IF response.whole.is_dict
    THEN LET ps == SelectSeq(response.whole.pairs, IsStrPair)
         IN  [k \in 1..Len(ps) |-> ps[k][2].val]
    ELSE <<>>

DecodedValues == [k \in 1..Len(decoded.dst_dict) |-> decoded.dst_dict[k][2]]

\* C11: the keys of dst_dict are "0", "1", ..., str(n-1) in the order the
\* translations were found; the translations are those of the line-wise pass,
\* and those of the whole-response parse only when the line-wise pass found
\* none; glossary_list has one entry per glossary line of the line-wise pass.
DecodeContract ==
    decode_pc = "decoded" =>
        /\ \A k \in 1..Len(decoded.dst_dict) :
               decoded.dst_dict[k][1] = DecimalKeys[k]
        /\ DecodedValues = IF LineTranslations # <<>> THEN LineTranslations
                                                      ELSE WholeTranslations
        /\ Len(decoded.glossary_list)
              = Len(SelectSeq(response.lines, IsGlossaryLine))

DecodeContractWitness ==
    /\ decode_pc = "decoded"
    /\ Len(response.lines) = 2
    /\ LineTranslations # <<>>
    /\ WholeTranslations # <<>>
    /\ WholeTranslations # LineTranslations
    /\ Len(decoded.glossary_list) = 1
    /\ Len(decoded.dst_dict) = 1


----------------------------------------------------------------------------
\* The periodic snapshot: CacheManager.save_to_file_tick and save_to_file

\* every task of the round is over, so is its callback, and one of them
\* called require_save_to_file
RoundRequestedSave ==
    /\ session.pc = "join"
    /\ tasks # <<>>
    /\ \A t \in 1..Len(tasks) : tasks[t].pc = "done"
    /\ \E t \in 1..Len(tasks) : tasks[t].result.kind = "dict"

\* the ticker sleeps and sees nothing to do when it wakes up
TickerAtRest == ticker_pc = "sleep" /\ ~save_flag

\* C12: no snapshot request is lost: when every callback of the round has
\* made its request and the ticker is at rest with the flag cleared, the state
\* the last request saw (the item list and the project as they are now) is
\* what the files hold
NoRequestLost ==
    (RoundRequestedSave /\ TickerAtRest) =>
        /\ file_items.exists
        /\ file_items.content = items
        /\ file_project.exists
        /\ file_project.content = project


\* ---- save_to_file while the workers run ----
\* The list comprehension of line 57 visits the live items one by one; the
\* threads of the round go on setting the items they own. snapshot.views
\* collects every value the item list takes while the comprehension runs.

\* line 57: the comprehension starts, FILE_LOCK held
SnapshotStarts ==
    /\ snapshot.pc \in {"idle", "written"}
    /\ snapshot' = [pc |-> "items", out |-> <<>>, views |-> {items}]
    /\ UNCHANGED <<decode_vars, workers_vars, race_vars, side_vars>>
    /\ UNCHANGED <<chunk_vars, checker_vars, stop_vars, round_vars, file_vars>>

\* line 57: item.get_vars() of the next item
SnapshotReadsItem ==
    /\ snapshot.pc = "items"
    /\ Len(snapshot.out) < Len(items)
    /\ snapshot' = [snapshot EXCEPT
                       !.out = Append(@, items[Len(snapshot.out) + 1])]
    /\ UNCHANGED <<decode_vars, workers_vars, race_vars, side_vars>>
    /\ UNCHANGED <<chunk_vars, checker_vars, stop_vars, round_vars, file_vars>>

\* lines 56 to 57: the list is complete and written to items.json
SnapshotWritesItems ==
    /\ snapshot.pc = "items"
    /\ Len(snapshot.out) = Len(items)
    /\ file_items' = [exists |-> TRUE, content |-> snapshot.out]
    /\ snapshot' = [snapshot EXCEPT !.pc = "project"]
    /\ UNCHANGED <<ticker_pc, file_project>>
    /\ UNCHANGED <<decode_vars, workers_vars, race_vars, side_vars>>
    /\ UNCHANGED <<chunk_vars, checker_vars, stop_vars, round_vars>>

\* lines 62 to 66: project.json
SnapshotWritesProject ==
    /\ snapshot.pc = "project"
    /\ file_project' = [exists |-> TRUE, content |-> project]
    /\ snapshot' = [snapshot EXCEPT !.pc = "written"]
    /\ UNCHANGED <<ticker_pc, file_items>>
    /\ UNCHANGED <<decode_vars, workers_vars, race_vars, side_vars>>
    /\ UNCHANGED <<chunk_vars, checker_vars, stop_vars, round_vars>>

\* a task thread stores the translation of one of its items
WorkerSetsItem(i) ==
    /\ items[i].status = UNTRANSLATED
    /\ items' = [items EXCEPT ![i].status = TRANSLATED]
    /\ snapshot' = IF snapshot.pc = "items"
                   THEN [snapshot EXCEPT !.views = @ \cup {items'}]
                   ELSE snapshot
    /\ UNCHANGED <<token_threshold, preceding_lines_threshold, chunks,
                   preceding_chunks, plan_pc>>
    /\ UNCHANGED <<decode_vars, workers_vars, race_vars, side_vars>>
    /\ UNCHANGED <<checker_vars, stop_vars, round_vars, file_vars>>

SnapshotInit ==
    /\ CheckerVarsIdle
    /\ AuxVarsIdle
    /\ TranslatorVarsIdle
    /\ items \in SessionItemLists
    /\ token_threshold = 0
    /\ preceding_lines_threshold = 0
    /\ chunks = <<>>
    /\ preceding_chunks = <<>>
    /\ plan_pc = "idle"

SnapshotNext ==
    \/ SnapshotStarts
    \/ SnapshotReadsItem
    \/ SnapshotWritesItems
    \/ SnapshotWritesProject
    \/ \E i \in 1..Len(items) : WorkerSetsItem(i)

SnapshotSpec == SnapshotInit /\ [][SnapshotNext]_vars

\* C13: items.json reflects a point-in-time view: what a save wrote is the
\* item list as it was at one single instant of that save
PointInTimeItems ==
    snapshot.pc \in {"project", "written"} =>
        file_items.content \in snapshot.views


----------------------------------------------------------------------------
\* The end of a session

\* the loop was left at line 199 or 207 and lines 274 to 275 have run
SessionFinalized == session.pc \in {"l284", "l285", "l288", "done"}

\* C14: a session that ran finalize with UNTRANSLATED items remaining leaves
\* the project status short of TRANSLATED
ExhaustionNotTranslated ==
    (SessionFinalized /\ CountStatus(items, UNTRANSLATED) > 0) =>
        project.status # TRANSLATED


----------------------------------------------------------------------------
\* Several session threads.  translation_start tests WORK_STATUS only, so this
\* specification lets every START that finds IDLE start a thread, whether or
\* not an earlier thread is still alive.  No STOP event is delivered and no
\* cache file exists; the callback of a task is one step here.

NewThread(st) ==
    [pc |-> "l121", status |-> st, current_round |-> 0, list |-> 0,
     tasks |-> <<>>]

ThreadGoto(k, pc) == session_threads' = [session_threads EXCEPT ![k].pc = pc]

\* what no step of this specification touches
RaceFrame ==
    UNCHANGED <<checker_vars, decode_vars, workers_vars, snapshot, side_vars,
                file_vars, session, session_no, watchers, input_items, config_file,
                round_base, tasks,
                data_lock, chunks, preceding_chunks, plan_pc>>

\* translation_start, lines 72 to 76
RaceStartAccepted ==
    /\ starts < MaxStarts
    /\ WORK_STATUS = IDLE
    /\ \E st \in {UNTRANSLATED, TRANSLATING} :
          session_threads' = Append(session_threads, NewThread(st))
    /\ starts' = starts + 1
    /\ UNCHANGED <<WORK_STATUS, has_translating, translating, stop_done, items,
                   token_threshold, preceding_lines_threshold, list_no,
                   extras, project, save_flag>>
    /\ RaceFrame

\* translation_start, lines 67 to 71
RaceStartRefused ==
    /\ starts < MaxStarts
    /\ WORK_STATUS # IDLE
    /\ starts' = starts + 1
    /\ UNCHANGED <<WORK_STATUS, has_translating, translating, stop_done, items,
                   token_threshold, preceding_lines_threshold, race_vars,
                   extras, project, save_flag>>
    /\ RaceFrame

\* line 121
ThreadSetsTranslating(k) ==
    /\ session_threads[k].pc = "l121"
    /\ has_translating' = TRUE
    /\ translating' = TRUE
    /\ ThreadGoto(k, "l124")
    /\ UNCHANGED <<WORK_STATUS, starts, stop_done, items, token_threshold,
                   preceding_lines_threshold, list_no, extras, project,
                   save_flag>>
    /\ RaceFrame

\* lines 124 to 136
ThreadSetsWorkStatus(k) ==
    /\ session_threads[k].pc = "l124"
    /\ WORK_STATUS' = TRANSLATING
    /\ token_threshold' = config_file.token_threshold
    /\ preceding_lines_threshold' =
          config_file.preceding_lines_threshold
    /\ ThreadGoto(k, "load")
    /\ UNCHANGED <<has_translating, translating, starts, stop_done, items,
                   list_no, extras, project, save_flag>>
    /\ RaceFrame

\* lines 144 to 147: a fresh start installs a new list and a new project
ThreadReadsInput(k) ==
    /\ session_threads[k].pc = "load"
    /\ session_threads[k].status # TRANSLATING
    /\ items' = input_items
    /\ list_no' = list_no + 1
    /\ project' = EmptyProject
    /\ ThreadGoto(k, "prepare")
    /\ UNCHANGED <<WORK_STATUS, has_translating, translating, starts,
                   stop_done, token_threshold, preceding_lines_threshold,
                   extras, save_flag>>
    /\ RaceFrame

\* lines 148 to 150: read_from_path raises
ThreadReadFails(k) ==
    /\ session_threads[k].pc = "load"
    /\ session_threads[k].status # TRANSLATING
    /\ ThreadGoto(k, "aborted")
    /\ UNCHANGED <<WORK_STATUS, has_translating, translating, starts,
                   stop_done, items, token_threshold,
                   preceding_lines_threshold, list_no, extras, project,
                   save_flag>>
    /\ RaceFrame

\* line 142: load_from_file finds neither file and keeps what is in memory
ThreadLoadsCache(k) ==
    /\ session_threads[k].pc = "load"
    /\ session_threads[k].status = TRANSLATING
    /\ ~file_items.exists
    /\ ~file_project.exists
    /\ ThreadGoto(k, "prepare")
    /\ UNCHANGED <<WORK_STATUS, has_translating, translating, starts,
                   stop_done, items, token_threshold,
                   preceding_lines_threshold, list_no, extras, project,
                   save_flag>>
    /\ RaceFrame

\* lines 160 to 183
ThreadPrepares(k) ==
    /\ session_threads[k].pc = "prepare"
    /\ extras' = IF session_threads[k].status = TRANSLATING
                 THEN project.extras
                 ELSE ZeroExtras
    /\ items' = ApplyFilters(items)
    /\ ThreadGoto(k, "loop")
    /\ UNCHANGED <<WORK_STATUS, has_translating, translating, starts,
                   stop_done, token_threshold, preceding_lines_threshold,
                   list_no, project, save_flag>>
    /\ RaceFrame

\* lines 199 to 212 and 271 to 275
ThreadBreaks(k) ==
    /\ session_threads[k].pc = "loop"
    /\ WORK_STATUS # STOPPING
    /\ \/ CountStatus(items, UNTRANSLATED) = 0
       \/ session_threads[k].current_round = config_file.max_round
    /\ project' = IF CountStatus(items, UNTRANSLATED) = 0
                  THEN [project EXCEPT !.status = TRANSLATED]
                  ELSE project
    /\ ThreadGoto(k, "l284")
    /\ UNCHANGED <<WORK_STATUS, has_translating, translating, starts,
                   stop_done, items, token_threshold,
                   preceding_lines_threshold, list_no, extras, save_flag>>
    /\ RaceFrame

ThreadTasks(plan) ==
    [t \in 1..Len(plan.chunks) |-> [pc |-> "created", chunk |-> plan.chunks[t]]]

\* lines 215 to 245: the tasks of the round take the items of their chunks
ThreadPlans(k) ==
    /\ session_threads[k].pc = "loop"
    /\ WORK_STATUS # STOPPING
    /\ CountStatus(items, UNTRANSLATED) > 0
    /\ session_threads[k].current_round # config_file.max_round
    /\ extras' = IF /\ session_threads[k].current_round = 0
                    /\ session_threads[k].status = UNTRANSLATED
                 THEN [extras EXCEPT
                          !.total_line = CountStatus(items, UNTRANSLATED)]
                 ELSE extras
    /\ token_threshold' = IF session_threads[k].current_round > 0
                          THEN NextBudget(token_threshold)
                          ELSE token_threshold
    /\ session_threads' =
          [session_threads EXCEPT
              ![k].pc = "submit",
              ![k].list = list_no,
              ![k].tasks = ThreadTasks(generate_item_chunks(
                               items, token_threshold',
                               preceding_lines_threshold))]
    /\ UNCHANGED <<WORK_STATUS, has_translating, translating, starts,
                   stop_done, items, preceding_lines_threshold, list_no,
                   project, save_flag>>
    /\ RaceFrame

ThreadFirstCreated(k) ==
    CHOOSE t \in 1..Len(session_threads[k].tasks) :
        /\ session_threads[k].tasks[t].pc = "created"
        /\ \A u \in 1..(t - 1) : session_threads[k].tasks[u].pc # "created"

\* lines 264 to 268: executor.submit for the next task
ThreadSubmits(k) ==
    /\ session_threads[k].pc = "submit"
    /\ \E t \in 1..Len(session_threads[k].tasks) :
          session_threads[k].tasks[t].pc = "created"
    /\ session_threads' =
          [session_threads EXCEPT
              ![k].tasks[ThreadFirstCreated(k)].pc = "running",
              ![k].pc = IF ThreadFirstCreated(k) = Len(session_threads[k].tasks)
                        THEN "join" ELSE "submit"]
    /\ UNCHANGED <<WORK_STATUS, has_translating, translating, starts,
                   stop_done, items, token_threshold,
                   preceding_lines_threshold, list_no, extras, project,
                   save_flag>>
    /\ RaceFrame

\* the task translates its chunk or fails, and task_done_callback has run.
\* The items of a list that was replaced are out of the cache's reach.
ThreadTaskEnds(k, t) ==
    /\ session_threads[k].tasks[t].pc = "running"
    /\ session_threads' = [session_threads EXCEPT ![k].tasks[t].pc = "done"]
    /\ \/ /\ items' = IF session_threads[k].list = list_no
                      THEN [i \in 1..Len(items) |->
                              IF i \in Range(session_threads[k].tasks[t].chunk)
                              THEN [items[i] EXCEPT !.status = TRANSLATED]
                              ELSE items[i]]
                      ELSE items
          /\ extras' = Fold(extras,
                            DictResult(Len(session_threads[k].tasks[t].chunk),
                                       SessionInputTokens, SessionOutputTokens))
          /\ project' = [extras |-> extras', status |-> TRANSLATING]
          /\ save_flag' = TRUE
       \/ UNCHANGED <<items, extras, project, save_flag>>
    /\ UNCHANGED <<WORK_STATUS, has_translating, translating, starts,
                   stop_done, token_threshold, preceding_lines_threshold,
                   list_no>>
    /\ RaceFrame

\* the end of the with block at line 265
ThreadJoins(k) ==
    /\ session_threads[k].pc = "join"
    /\ \A t \in 1..Len(session_threads[k].tasks) :
          session_threads[k].tasks[t].pc = "done"
    /\ session_threads' =
          [session_threads EXCEPT
              ![k].pc = "loop",
              ![k].current_round = @ + 1,
              ![k].tasks = <<>>]
    /\ UNCHANGED <<WORK_STATUS, has_translating, translating, starts,
                   stop_done, items, token_threshold,
                   preceding_lines_threshold, list_no, extras, project,
                   save_flag>>
    /\ RaceFrame

\* line 284
ThreadEndClearsTranslating(k) ==
    /\ session_threads[k].pc = "l284"
    /\ translating' = FALSE
    /\ ThreadGoto(k, "l285")
    /\ UNCHANGED <<WORK_STATUS, has_translating, starts, stop_done, items,
                   token_threshold, preceding_lines_threshold, list_no,
                   extras, project, save_flag>>
    /\ RaceFrame

\* lines 285 to 288
ThreadEndSetsIdle(k) ==
    /\ session_threads[k].pc = "l285"
    /\ WORK_STATUS' = IDLE
    /\ stop_done' = stop_done \cup {<<"session", k>>}
    /\ ThreadGoto(k, "done")
    /\ UNCHANGED <<has_translating, translating, starts, items,
                   token_threshold, preceding_lines_threshold, list_no,
                   extras, project, save_flag>>
    /\ RaceFrame

ThreadStep(k) ==
    \/ ThreadSetsTranslating(k)
    \/ ThreadSetsWorkStatus(k)
    \/ ThreadReadsInput(k)
    \/ ThreadReadFails(k)
    \/ ThreadLoadsCache(k)
    \/ ThreadPrepares(k)
    \/ ThreadBreaks(k)
    \/ ThreadPlans(k)
    \/ ThreadSubmits(k)
    \/ ThreadJoins(k)
    \/ ThreadEndClearsTranslating(k)
    \/ ThreadEndSetsIdle(k)

RaceInit ==
    /\ CheckerVarsIdle
    /\ AuxVarsIdle
    /\ ChunkVarsIdle
    /\ WORK_STATUS = IDLE
    /\ has_translating = FALSE
    /\ translating = FALSE
    /\ session = NoSession
    /\ session_no = 0
    /\ starts = 0
    /\ watchers = <<>>
    /\ stop_done = {}
    /\ input_items \in SessionItemLists
    /\ config_file = DefaultConfig
    /\ extras = ZeroExtras
    /\ round_base = ZeroExtras
    /\ project = EmptyProject
    /\ tasks = <<>>
    /\ data_lock = 0
    /\ save_flag = FALSE
    /\ ticker_pc = "sleep"
    /\ file_items = [exists |-> FALSE, content |-> <<>>]
    /\ file_project = [exists |-> FALSE, content |-> EmptyProject]

RaceNext ==
    \/ RaceStartAccepted
    \/ RaceStartRefused
    \/ \E k \in 1..Len(session_threads) : ThreadStep(k)
    \/ \E k \in 1..Len(session_threads) :
          \E t \in 1..Len(session_threads[k].tasks) : ThreadTaskEnds(k, t)

RaceSpec == RaceInit /\ [][RaceNext]_vars

\* the tasks that hold item i of list l and have not finished
OwnersOf(l, i) ==
    {kt \in {<<k, t>> : k \in 1..Len(session_threads), t \in 1..MaxSessionItems} :
        /\ kt[2] <= Len(session_threads[kt[1]].tasks)
        /\ session_threads[kt[1]].list = l
        /\ session_threads[kt[1]].tasks[kt[2]].pc # "done"
        /\ i \in Range(session_threads[kt[1]].tasks[kt[2]].chunk)}

\* C15: at no time is one item owned by two unfinished tasks
NoItemOwnedTwice ==
    \A l \in 1..list_no : \A i \in 1..MaxSessionItems :
        Cardinality(OwnersOf(l, i)) <= 1


----------------------------------------------------------------------------
\* Translator.initialize_max_workers

MaxConfigWorkers == 2
MaxConfigRpm == 2
MaxSlots == 2

DefaultWorkers == 8
UnboundedWorkers == 8192

\* lines 313 to 314
SlotCount(slots) ==
    IF slots.kind = "list" /\ slots.len > 0 THEN slots.len ELSE 0

\* lines 316 to 323 with the branch for rpm_threshold > 0 left out
SizeWorkersNoRpmBranch(w) ==
    IF w.max_workers = 0 /\ w.rpm_threshold = 0
    THEN [w EXCEPT !.max_workers = DefaultWorkers, !.rpm_threshold = 0]
    ELSE w

\* lines 316 to 323
SizeWorkers(w) ==
    IF w.max_workers = 0 /\ w.rpm_threshold = 0
    THEN [w EXCEPT !.max_workers = DefaultWorkers, !.rpm_threshold = 0]
    ELSE IF w.max_workers > 0 /\ w.rpm_threshold = 0
    THEN w
    ELSE IF w.max_workers = 0 /\ w.rpm_threshold > 0
    THEN [w EXCEPT !.max_workers = UnboundedWorkers,
                   !.rpm_threshold = w.rpm_threshold]
    ELSE w

WorkersFrame ==
    UNCHANGED <<chunk_vars, checker_vars, decode_vars, snapshot, race_vars,
                side_vars, stop_vars, round_vars, file_vars>>

\* lines 300 to 314 when max_workers is 0: the probe, whatever comes of it
WorkersProbe ==
    /\ workers_pc = "input"
    /\ workers_in.max_workers = 0
    /\ workers_out' = [max_workers |-> SlotCount(workers_in.slots),
                       rpm_threshold |-> workers_in.rpm_threshold,
                       probes |-> 1]
    /\ workers_pc' = "sized"
    /\ UNCHANGED workers_in
    /\ WorkersFrame

\* lines 300 to 304 otherwise
WorkersSkipProbe ==
    /\ workers_pc = "input"
    /\ workers_in.max_workers # 0
    /\ workers_out' = [max_workers |-> workers_in.max_workers,
                       rpm_threshold |-> workers_in.rpm_threshold,
                       probes |-> 0]
    /\ workers_pc' = "sized"
    /\ UNCHANGED workers_in
    /\ WorkersFrame

\* lines 316 to 325
WorkersReturn ==
    /\ workers_pc = "sized"
    /\ workers_out' = SizeWorkers(workers_out)
    /\ workers_pc' = "returned"
    /\ UNCHANGED workers_in
    /\ WorkersFrame

ProbeOutcomes ==
    {ProbeFailure, ProbeNotAList} \cup {ProbeList(n) : n \in 0..MaxSlots}

WorkersInit ==
    /\ ChunkVarsIdle
    /\ CheckerVarsIdle
    /\ TranslatorVarsIdle
    /\ DecodeVarsIdle
    /\ SnapshotVarsIdle
    /\ RaceVarsIdle
    /\ SideVarsIdle
    /\ workers_in \in [max_workers : 0..MaxConfigWorkers,
                       rpm_threshold : 0..MaxConfigRpm,
                       slots : ProbeOutcomes]
    /\ workers_out = [max_workers |-> 0, rpm_threshold |-> 0, probes |-> 0]
    /\ workers_pc = "input"

WorkersNext ==
    \/ WorkersProbe
    \/ WorkersSkipProbe
    \/ WorkersReturn

WorkersSpec == WorkersInit /\ [][WorkersNext]_vars

\* C16: initialize_max_workers returns max_workers >= 1 and the configured
\* rpm; a configured max_workers > 0 is returned as is and nothing is probed;
\* with 0 configured a non-empty slots list gives its length, and anything
\* else (empty list, non-list, failure) gives 8 when rpm = 0 and 8192 when
\* rpm > 0
WorkerSizing ==
    workers_pc = "returned" =>
        /\ workers_out.max_workers >= 1
        /\ workers_out.rpm_threshold = workers_in.rpm_threshold
        /\ workers_in.max_workers > 0 =>
              /\ workers_out.max_workers = workers_in.max_workers
              /\ workers_out.probes = 0
        /\ (workers_in.max_workers = 0 /\ workers_in.slots.kind = "list"
                                       /\ workers_in.slots.len > 0) =>
              workers_out.max_workers = workers_in.slots.len
        /\ (workers_in.max_workers = 0 /\ ~(workers_in.slots.kind = "list"
                                            /\ workers_in.slots.len > 0)) =>
              workers_out.max_workers =
                  IF workers_in.rpm_threshold = 0 THEN DefaultWorkers
                                                  ELSE UnboundedWorkers

\* the probe failed with rpm configured, and the function returned all the same
WorkerSizingWitness ==
    /\ workers_pc = "returned"
    /\ workers_in.max_workers = 0
    /\ workers_in.slots = ProbeFailure
    /\ workers_in.rpm_threshold > 0
    /\ workers_out.probes = 1
    /\ workers_out.max_workers = UnboundedWorkers


----------------------------------------------------------------------------
\* STOP and the rounds

\* the session thread left the loop at lines 188 to 193
StopObserved == session.pc \in {"l191", "l192", "stopped"}

\* while the round is dispatched the thread goes on, STOP or not, and it
\* leaves the round only when every task is over and folded
RoundRunsToTheEnd ==
    (session.pc \in {"submit", "join"} /\ session'.pc # session.pc) =>
        \/ session.pc = "submit" /\ session'.pc = "join"
                                 /\ \A k \in 1..Len(tasks) : tasks'[k].pc # "created"
        \/ session.pc = "join" /\ session'.pc = "loop"
                               /\ AllCallbacksDone /\ ExtrasFolded

\* after STOPPING was seen the thread only clears translating, sets IDLE and
\* returns; the next thing that can happen to session is a new START
StopSkipsFinalize ==
    StopObserved =>
        /\ tasks' = <<>>
        /\ project' = project
        /\ session'.pc \in {"l191", "l192", "stopped", "l121"}
        /\ (session.pc = "l191" /\ session'.pc = "l192") => ~translating'
        /\ (session.pc = "l192" /\ session'.pc = "stopped") =>
              (~translating /\ WORK_STATUS' = IDLE)

\* C17: STOP is honoured only at round boundaries: a round under dispatch is
\* submitted, run and folded whole; once STOPPING is seen at the top of an
\* iteration no task is submitted, finalize is skipped, the session thread
\* emits no STOP_DONE, and it sets translating = false and WORK_STATUS = IDLE
StopAtRoundBoundary ==
    /\ [](StopObserved => (tasks = <<>> /\ <<"session", session_no>> \notin stop_done))
    /\ [][RoundRunsToTheEnd]_vars
    /\ [][StopSkipsFinalize]_vars

\* STOP came while a session was alive, which ran a round whose results were
\* folded and then left at the top of the next iteration
StopAtRoundBoundaryWitness ==
    /\ session.pc = "stopped"
    /\ session.current_round = 1
    /\ extras.line > 0
    /\ \E k \in 1..Len(watchers) : watchers[k].target = session_no
    /\ ~translating
    /\ WORK_STATUS = IDLE


----------------------------------------------------------------------------
\* The token budget over the rounds.  One fresh session runs to its end over
\* any configured budget and up to BudgetMaxRound rounds; no STOP is
\* delivered and the ticker sleeps.

MaxBudgetThreshold == 9
BudgetMaxRound == 3

\* one sentence, or two: sentences have two tokens each, so that the two share
\* a chunk from a budget of 4 on
BudgetItemLists ==
    { <<SessionItem("f1", SrcSentence, 2)>>,
      <<SessionItem("f1", SrcSentence, 2), SessionItem("f1", SrcSentence, 2)>> }

BudgetConfigs ==
    [token_threshold : 0..MaxBudgetThreshold,
     preceding_lines_threshold : {ConfigPrecedingLinesThreshold},
     max_round : 0..BudgetMaxRound]

BudgetInit ==
    /\ ChunkVarsIdle
    /\ CheckerVarsIdle
    /\ AuxVarsIdle
    /\ WORK_STATUS = IDLE
    /\ has_translating = FALSE
    /\ translating = FALSE
    /\ session = [pc |-> "l121", status |-> UNTRANSLATED, current_round |-> 0]
    /\ session_no = 1
    /\ starts = MaxStarts
    /\ watchers = <<>>
    /\ stop_done = {}
    /\ input_items \in BudgetItemLists
    /\ config_file \in BudgetConfigs
    /\ extras = ZeroExtras
    /\ round_base = ZeroExtras
    /\ project = EmptyProject
    /\ tasks = <<>>
    /\ data_lock = 0
    /\ save_flag = FALSE
    /\ ticker_pc = "sleep"
    /\ file_items = [exists |-> FALSE, content |-> <<>>]
    /\ file_project = [exists |-> FALSE, content |-> EmptyProject]

BudgetNext ==
    \/ SessionSetsTranslating
    \/ SessionSetsWorkStatus
    \/ SessionReadsInput
    \/ SessionReadFails
    \/ SessionPrepares
    \/ SessionBreaks
    \/ SessionPlans
    \/ SessionSubmits
    \/ SessionJoins
    \/ SessionFinalizes
    \/ SessionEndClearsTranslating
    \/ SessionEndSetsIdle
    \/ SessionEmitsStopDone
    \/ \E t \in 1..Len(tasks) : TaskStep(t)

BudgetSpec == BudgetInit /\ [][BudgetNext]_vars

\* the step in which the chunks of a round are planned (lines 215 to 226)
RoundPlanned == session.pc = "loop" /\ session'.pc = "submit"

\* round 0 plans with the configured budget and round r > 0 with
\* max(1, floor(budget of round r - 1 / 3)); nothing else moves the budget
\* once the configuration is loaded
BudgetRecurrence ==
    /\ RoundPlanned =>
          token_threshold' =
              IF session.current_round = 0
              THEN config_file.token_threshold
              ELSE IF token_threshold \div 3 >= 1 THEN token_threshold \div 3
                                                  ELSE 1
    /\ (token_threshold' # token_threshold) =>
          \/ RoundPlanned /\ session.current_round > 0
          \/ session.pc = "l124"

\* a round is dispatched only while current_round < max_round
RoundsWithinLimit ==
    /\ session.current_round <= Max(config_file.max_round, 0) + 1
    /\ session.pc \in {"submit", "join"} =>
          session.current_round < config_file.max_round

\* the budget of a round
RoundUnderWay == session.pc \in {"submit", "join"}

BudgetNeverIncreases ==
    (RoundPlanned /\ session.current_round > 0) =>
        token_threshold' <= token_threshold

BudgetNeverIncreasesIfPositive ==
    (RoundPlanned /\ session.current_round > 0
              /\ config_file.token_threshold >= 1) =>
        token_threshold' <= token_threshold

----------------------------------------------------------------------------
\* The preceding context of a chunk, read off the item list

\* the walk backwards from item i (1-based) for a chunk of file path: what it
\* collects, in reading order
RECURSIVE ContextBefore(_, _, _, _)
ContextBefore(i, path, threshold, acc) ==
    IF i < 1 THEN acc
    ELSE IF items[i].status = EXCLUDED \/ strip(items[i].src) = <<>>
        THEN ContextBefore(i - 1, path, threshold, acc)
    ELSE IF Len(acc) >= threshold
        THEN acc
    ELSE IF \/ items[i].file_path # path
            \/ ~endswith(strip(items[i].src), END_LINE_PUNCTUATION)
        THEN acc
    ELSE ContextBefore(i - 1, path, threshold, <<i>> \o acc)

ContextOf(chunk) ==
    ContextBefore(chunk[1] - 1, items[chunk[1]].file_path,
                  preceding_lines_threshold, <<>>)

\* C19: for every chunk, the first one included, the preceding context is the
\* result of the walk backwards from the item immediately before the chunk's
\* first item
ContextFromItemBefore ==
    plan_pc = "planned" =>
        \A k \in 1..Len(chunks) : preceding_chunks[k] = ContextOf(chunks[k])


\* the items are those of scenario 6, planned with a context budget of 5
PrecedingScenario ==
    /\ Len(items) = 4
    /\ [k \in 1..3 |-> items[k].src] = PrecedingScenarioTexts
    /\ \A k \in 1..4 : items[k].file_path = "f1"
    /\ preceding_lines_threshold = 5

\* C20 as stated: with "First sentence.", "Middle without punctuation",
\* "Trailing line." in one file and preceding_lines_threshold = 5, a chunk
\* that starts at index 3 (the item after the three) has an empty preceding
\* context
PrecedingScenarioEmpty ==
    (plan_pc = "planned" /\ PrecedingScenario) =>
        \A k \in 1..Len(chunks) :
            chunks[k][1] = 4 => preceding_chunks[k] = <<>>

\* C20 amended: that chunk has "Trailing line." as its preceding context, the
\* walk stopping at "Middle without punctuation"; the context is empty for
\* the chunk that starts at "Trailing line." itself
PrecedingScenarioTrailing ==
    (plan_pc = "planned" /\ PrecedingScenario) =>
        \A k \in 1..Len(chunks) :
            /\ chunks[k][1] = 4 => preceding_chunks[k] = <<3>>
            /\ chunks[k][1] = 3 => preceding_chunks[k] = <<>>

\* a chunk starts right after the three items
PrecedingScenarioWitness ==
    /\ plan_pc = "planned"
    /\ PrecedingScenario
    /\ \E k \in 2..Len(chunks) :
          /\ chunks[k][1] = 4
          /\ 3 \in Range(chunks[k - 1])
          /\ preceding_chunks[k] = <<3>>


(***************************************************************************)
(* Translator.mtool_optimizer_postprocess, applied to a list of items.     *)
(* An item is its src, dst, file_type, file_path and row; CacheItem(       *)
(* item.get_vars()) is a new item with the same fields.                    *)
(***************************************************************************)

KVJSON == "KVJSON"
TXT == "TXT"

MaxPostItems == 2

\* itertools.zip_longest(a, b, fillvalue = ""), stopped at the shorter list
zip_shortest(a, b) ==
    [i \in 1..(IF Len(a) <= Len(b) THEN Len(a) ELSE Len(b)) |-> <<a[i], b[i]>>]

\* itertools.zip_longest(a, b, fillvalue = "")
zip_longest(a, b) ==
    [i \in 1..Max(Len(a), Len(b)) |->
        <<IF i <= Len(a) THEN a[i] ELSE <<>>, IF i <= Len(b) THEN b[i] ELSE <<>>>>]

\* line 413
items_kvjson(its) == SelectSeq(its, LAMBDA item : item.file_type = KVJSON)

\* lines 416 to 418: the keys of group_by_file_path, in insertion order
RECURSIVE GroupKeys(_, _)
GroupKeys(kv, seen) ==
    IF kv = <<>> THEN seen
    ELSE GroupKeys(Tail(kv),
                   IF Head(kv).file_path \in Range(seen) THEN seen
                   ELSE Append(seen, Head(kv).file_path))

\* group_by_file_path[path]
group_by_file_path(kv, path) == SelectSeq(kv, LAMBDA item : item.file_path = path)

\* lines 423 to 431 for one item of a group of n items
item_ex(item, n) ==
    IF CountNewline(item.src) > 0
    THEN LET pairs == zip_longest(splitlines(item.src), splitlines(item.dst))
         IN  [i \in 1..Len(pairs) |->
                 [item EXCEPT !.src = strip(pairs[i][1]),
                              !.dst = strip(pairs[i][2]),
                              !.row = n]]
    ELSE <<>>

\* lines 421 to 431 for one group
GroupAppends(group) ==
    Flatten([k \in 1..Len(group) |-> item_ex(group[k], Len(group))])

\* what items.append has added when the loops end
PostprocessAppended(its) ==
    LET kv == items_kvjson(its)
        keys == GroupKeys(kv, <<>>)
    IN  Flatten([g \in 1..Len(keys) |-> GroupAppends(group_by_file_path(kv, keys[g]))])

TextOneLine == <<"a">>
TextTwoLines == <<"a", " ", "\n", "b">>
TextLineWithNewline == <<"a", "\n">>
TextCarriageReturn == <<"a", "\r", "b">>
TextTranslated == <<"x">>
TextThreeLines == <<"x", "\n", " ", "y", "\n", "z">>

PostSrcs == {TextOneLine, TextTwoLines, TextLineWithNewline, TextCarriageReturn}

PostDsts == {<<>>, TextTranslated, TextThreeLines}

PostItems ==
    [src : PostSrcs, dst : PostDsts, file_type : {KVJSON, TXT},
     file_path : FilePaths, row : {0}]

PostFrame ==
    UNCHANGED <<chunk_vars, checker_vars, decode_vars, workers_vars, snapshot,
                race_vars, save_run, stop_vars, round_vars, file_vars>>

PostprocessInit ==
    /\ ChunkVarsIdle
    /\ CheckerVarsIdle
    /\ DecodeVarsIdle
    /\ WorkersVarsIdle
    /\ SnapshotVarsIdle
    /\ RaceVarsIdle
    /\ SaveRunVarsIdle
    /\ TranslatorVarsIdle
    /\ \E n \in 0..MaxPostItems : \E its \in [1..n -> PostItems] :
       \E enable \in BOOLEAN :
           postprocess = [pc |-> "called", enable |-> enable,
                          input |-> its, items |-> its]

\* lines 409 to 410
PostprocessReturns ==
    /\ postprocess.pc = "called"
    /\ Len(postprocess.items) = 0 \/ postprocess.enable = FALSE
    /\ postprocess' = [postprocess EXCEPT !.pc = "done"]
    /\ PostFrame

\* lines 413 to 431
PostprocessAppends ==
    /\ postprocess.pc = "called"
    /\ ~(Len(postprocess.items) = 0 \/ postprocess.enable = FALSE)
    /\ postprocess' =
           [postprocess EXCEPT
               !.pc = "done",
               !.items = postprocess.items \o PostprocessAppended(postprocess.items)]
    /\ PostFrame

PostprocessNext == PostprocessReturns \/ PostprocessAppends

PostprocessSpec == PostprocessInit /\ [][PostprocessNext]_vars

----------------------------------------------------------------------------
(* Properties of the postprocess *)

Occurrences(seq, r) == Cardinality({k \in 1..Len(seq) : seq[k] = r})

\* the items after those the list held at the call
Synthesized ==
    SubSeq(postprocess.items, Len(postprocess.input) + 1, Len(postprocess.items))

\* the size of the KVJSON group of the file of item
GroupSize(item) ==
    Cardinality({k \in 1..Len(postprocess.input) :
                    /\ postprocess.input[k].file_type = KVJSON
                    /\ postprocess.input[k].file_path = item.file_path})

\* one item per pair of lines, the longer side deciding how many
LinePairs(item) ==
    LET src_lines == splitlines(item.src)
        dst_lines == splitlines(item.dst)
    IN  [i \in 1..Max(Len(src_lines), Len(dst_lines)) |->
            [item EXCEPT
                !.src = IF i <= Len(src_lines) THEN strip(src_lines[i]) ELSE <<>>,
                !.dst = IF i <= Len(dst_lines) THEN strip(dst_lines[i]) ELSE <<>>,
                !.row = GroupSize(item)]]

SeveralLines(src) == Len(splitlines(src)) > 1

HoldsNewline(src) == "\n" \in Range(src)

\* the synthesized items are those of the KVJSON items Expands accepts, each
\* as often as expected, whatever their order
PostprocessContract(Expands(_)) ==
    LET input == postprocess.input
        expected ==
            Flatten([k \in 1..Len(input) |->
                IF input[k].file_type = KVJSON /\ Expands(input[k].src)
                THEN LinePairs(input[k]) ELSE <<>>])
    IN  postprocess.pc = "done" =>
            /\ Len(postprocess.items) >= Len(input)
            /\ SubSeq(postprocess.items, 1, Len(input)) = input
            /\ (input = <<>> \/ ~postprocess.enable) => postprocess.items = input
            /\ (input # <<>> /\ postprocess.enable) =>
                   /\ Len(Synthesized) = Len(expected)
                   /\ \A r \in Range(expected) \cup Range(Synthesized) :
                          Occurrences(Synthesized, r) = Occurrences(expected, r)

\* C22: the postprocess leaves the items of the list and their positions as
\* they are and appends, for each KVJSON item whose source has more than one
\* line, max(source lines, destination lines) items, the i-th with the
\* stripped i-th source and destination line ("" where a side is shorter) and
\* row = size of the KVJSON group of its file; nothing for an item with a
\* source of one line or of another file type, and nothing at all with the
\* flag off or an empty list.
PostprocessSeveralLines == PostprocessContract(SeveralLines)

\* C22, amended: an item is expanded when its source holds "\n", also when
\* the source is one line ending in "\n"; a source whose lines are separated
\* by "\r" alone is not expanded.
PostprocessNewline == PostprocessContract(HoldsNewline)

\* two KVJSON items of one file: two source lines against three destination
\* lines give three items, and a source of one line ending in "\n" gives one
PostprocessWitness ==
    /\ postprocess.pc = "done"
    /\ postprocess.enable
    /\ Len(postprocess.input) = 2
    /\ postprocess.input[1] =
           [src |-> TextTwoLines, dst |-> TextThreeLines, file_type |-> KVJSON,
            file_path |-> "f1", row |-> 0]
    /\ postprocess.input[2] =
           [src |-> TextLineWithNewline, dst |-> TextTranslated,
            file_type |-> KVJSON, file_path |-> "f1", row |-> 0]
    /\ Len(postprocess.items) = 6
    /\ postprocess.items[5] =
           [src |-> <<>>, dst |-> <<"z">>, file_type |-> KVJSON,
            file_path |-> "f1", row |-> 2]
    /\ postprocess.items[6] =
           [src |-> <<"a">>, dst |-> <<"x">>, file_type |-> KVJSON,
            file_path |-> "f1", row |-> 2]


(***************************************************************************)
(* CacheManager.save_to_file_tick and save_to_file when the file system    *)
(* can fail: os.makedirs and open/write either succeed or raise OSError.   *)
(* save_run.log holds what self.debug was given, save_run.tried the files  *)
(* the running save has opened.                                            *)
(***************************************************************************)

MaxSaveRequests == 2

SaveFrame ==
    UNCHANGED <<chunk_vars, checker_vars, decode_vars, workers_vars, snapshot,
                race_vars, postprocess, stop_vars, round_vars>>

\* what a failed open(path, "w") or write leaves of the file: as it was when
\* open raised, cut to nothing when write raised
FailedWrite(file) == {file, [file EXCEPT !.exists = TRUE, !.content = <<>>]}

\* require_save_to_file, lines 95 to 97
SaveRequested ==
    /\ save_run.requests < MaxSaveRequests
    /\ save_flag' = TRUE
    /\ save_run' = [save_run EXCEPT !.requests = @ + 1]
    /\ UNCHANGED <<extras, round_base, project, tasks, data_lock>>
    /\ UNCHANGED <<chunk_vars, checker_vars, decode_vars, workers_vars, snapshot,
                   race_vars, postprocess, stop_vars, file_vars>>

\* lines 73 to 76: the sleep is over and the flag is set
SaveTickSeesFlag ==
    /\ ticker_pc = "sleep"
    /\ save_flag
    /\ ticker_pc' = "l78"
    /\ save_run' = [save_run EXCEPT !.tried = {}]
    /\ UNCHANGED <<file_items, file_project>>
    /\ SaveFrame

\* line 78: os.makedirs in the ticker
SaveTickMakedirs ==
    /\ ticker_pc = "l78"
    /\ ticker_pc' = "l50"
    /\ UNCHANGED <<file_items, file_project, save_run>>
    /\ SaveFrame

\* line 78 raises: nothing in save_to_file_tick catches it, the thread ends
SaveTickMakedirsFails ==
    /\ ticker_pc = "l78"
    /\ ticker_pc' = "raised"
    /\ UNCHANGED <<file_items, file_project, save_run>>
    /\ SaveFrame

\* line 50: os.makedirs in save_to_file
SaveMakedirs ==
    /\ ticker_pc = "l50"
    /\ ticker_pc' = "save_items"
    /\ UNCHANGED <<file_items, file_project, save_run>>
    /\ SaveFrame

\* line 50 raises, out of save_to_file and out of the ticker
SaveMakedirsFails ==
    /\ ticker_pc = "l50"
    /\ ticker_pc' = "raised"
    /\ UNCHANGED <<file_items, file_project, save_run>>
    /\ SaveFrame

\* lines 54 to 57
SaveWritesItems ==
    /\ ticker_pc = "save_items"
    /\ file_items' = [exists |-> TRUE, content |-> items]
    /\ save_run' = [save_run EXCEPT !.tried = @ \cup {"items.json"}]
    /\ ticker_pc' = "save_project"
    /\ UNCHANGED file_project
    /\ SaveFrame

\* lines 58 to 59: the exception is logged
SaveWritesItemsFails ==
    /\ ticker_pc = "save_items"
    /\ file_items' \in FailedWrite(file_items)
    /\ save_run' = [save_run EXCEPT !.tried = @ \cup {"items.json"},
                                    !.log = Append(@, "items.json")]
    /\ ticker_pc' = "save_project"
    /\ UNCHANGED file_project
    /\ SaveFrame

\* lines 63 to 66
SaveWritesProject ==
    /\ ticker_pc = "save_project"
    /\ file_project' = [exists |-> TRUE, content |-> project]
    /\ save_run' = [save_run EXCEPT !.tried = @ \cup {"project.json"}]
    /\ ticker_pc' = "clear"
    /\ UNCHANGED file_items
    /\ SaveFrame

\* lines 67 to 68: the exception is logged
SaveWritesProjectFails ==
    /\ ticker_pc = "save_project"
    /\ file_project' \in
           {file_project, [file_project EXCEPT !.exists = TRUE]}
    /\ save_run' = [save_run EXCEPT !.tried = @ \cup {"project.json"},
                                    !.log = Append(@, "project.json")]
    /\ ticker_pc' = "clear"
    /\ UNCHANGED file_items
    /\ SaveFrame

\* lines 89 to 92: the event, and the flag is reset
SaveTickClearsFlag ==
    /\ ticker_pc = "clear"
    /\ save_flag' = FALSE
    /\ ticker_pc' = "sleep"
    /\ save_run' = [save_run EXCEPT !.events = @ + 1]
    /\ UNCHANGED <<extras, round_base, project, tasks, data_lock>>
    /\ UNCHANGED <<file_items, file_project>>
    /\ UNCHANGED <<chunk_vars, checker_vars, decode_vars, workers_vars, snapshot,
                   race_vars, postprocess, stop_vars>>

SaveInit ==
    /\ CheckerVarsIdle
    /\ DecodeVarsIdle
    /\ WorkersVarsIdle
    /\ SnapshotVarsIdle
    /\ RaceVarsIdle
    /\ PostprocessVarsIdle
    /\ TranslatorVarsIdle
    /\ SaveRunVarsIdle
    /\ items \in SessionItemLists
    /\ token_threshold = 0
    /\ preceding_lines_threshold = 0
    /\ chunks = <<>>
    /\ preceding_chunks = <<>>
    /\ plan_pc = "idle"

SaveNext ==
    \/ SaveRequested
    \/ SaveTickSeesFlag
    \/ SaveTickMakedirs
    \/ SaveTickMakedirsFails
    \/ SaveMakedirs
    \/ SaveMakedirsFails
    \/ SaveWritesItems
    \/ SaveWritesItemsFails
    \/ SaveWritesProject
    \/ SaveWritesProjectFails
    \/ SaveTickClearsFlag
    \/ \E i \in 1..Len(items) : WorkerSetsItem(i)

SaveSpec == SaveInit /\ [][SaveNext]_vars

\* C23: no failure of a snapshot is fatal: nothing raises out of save_to_file
\* or ends the ticker, whether creating the cache folder, writing items.json
\* or writing project.json failed, and a save that failed on items.json has
\* still tried project.json when it ends.
SaveFailureNotFatal ==
    /\ ticker_pc # "raised"
    /\ ticker_pc = "clear" => "project.json" \in save_run.tried


----------------------------------------------------------------------------
(* The project record and the callbacks of a round *)

ProjectExtrasNotOlder ==
    /\ project'.extras.line >= project.extras.line
    /\ project'.extras.total_tokens >= project.extras.total_tokens
    /\ project'.extras.total_output_tokens >= project.extras.total_output_tokens

ProjectExtrasCurrent == AllCallbacksDone => project.extras = extras

\* C24: the callback stores extras in the project under the mutex that guards
\* extras, so that whatever the interleaving of the callbacks of a round no
\* step replaces the project's extras by older ones, and once all callbacks
\* have finished the project's extras are the scheduler's extras.
ProjectUnderDataLock ==
    /\ []ProjectExtrasCurrent
    /\ [][ProjectExtrasNotOlder]_vars


----------------------------------------------------------------------------
(* Session threads under any timing of TRANSLATION_START *)

RunningThreads ==
    {k \in 1..Len(session_threads) : session_threads[k].pc \notin EndedPcs}

\* C25: at most one session thread runs at any time, whatever the sequence
\* and timing of the TRANSLATION_START events: a START delivered while a
\* session is active starts no second session.
OneSessionAtATime == Cardinality(RunningThreads) <= 1


----------------------------------------------------------------------------
(* How a session leaves the flags *)

SessionEnded == session.pc \in {"aborted", "stopped", "done"}

\* C26: every session that starts ends with translating = false and
\* WORK_STATUS no longer TRANSLATING, whichever way it ends (all items
\* translated, round limit reached, stop observed, or a read failure while
\* loading the items), so that a later TRANSLATION_START is accepted.
SessionEndsIdle ==
    SessionEnded => (translating = FALSE /\ WORK_STATUS # TRANSLATING)


----------------------------------------------------------------------------
(* The stop watcher and the sessions started after its STOP *)

\* watcher k sets IDLE and emits TRANSLATION_STOP_DONE in this step
WatcherActs(k) == watchers[k].pc = "l59" /\ watchers'[k].pc = "done"

\* a session thread started after the STOP of watcher k is running
LaterSessionRuns(k) == SessionLive /\ session_no > watchers[k].target

WatcherKeepsToItsSession ==
    \A k \in 1..Len(watchers) : WatcherActs(k) => ~LaterSessionRuns(k)

\* C27: a stop watcher sets WORK_STATUS to IDLE and emits
\* TRANSLATION_STOP_DONE only for the session its STOP targeted, never while
\* a session started after that STOP is running.
WatcherTargetsItsSession == [][WatcherKeepsToItsSession]_vars


----------------------------------------------------------------------------
(* The status set at finalize and project.json *)

\* the session thread went through finalize with nothing left to translate
\* and has returned
FinishedTranslated ==
    /\ session.pc = "done"
    /\ CountStatus(items, UNTRANSLATED) = 0
    /\ project.status = TRANSLATED

\* what translation_project_status_check_target reads from project.json
\* (lines 109 to 112), the default status when there is no file
StatusCheckReads ==
    IF file_project.exists THEN file_project.content.status ELSE UNTRANSLATED

\* C28: when a session finishes with no UNTRANSLATED item, the status
\* TRANSLATED set at finalize reaches project.json: once the ticker has
\* nothing left to do, the file holds it and a project status check reads
\* TRANSLATED, whatever the interleaving of the ticker with the last callback
\* and also when the session dispatched no task.
FinalStatusWritten ==
    (FinishedTranslated /\ TickerAtRest) => StatusCheckReads = TRANSLATED

====
